---- MODULE Spec2Model ----
(***************************************************************************)
(* State-machine model of the notification service: the consumer's         *)
(* preference gates (lib/notifications/consumer.ts), the preference cache  *)
(* (lib/services/userPreferences.ts), the live stream registries           *)
(* (lib/notifications/streamManager.ts and the SSE route), the bounded     *)
(* history list (lib/services/notificationStore.ts), the reconnecting      *)
(* subscriber hook (hooks/useSSE.ts) and the broker consume loop           *)
(* (lib/rabbitmq.ts).  Each component has its own specification over the   *)
(* shared variables; a specification leaves the other components idle.     *)
(***************************************************************************)
EXTENDS Integers, Sequences, FiniteSets, TLC

VARIABLES
    \* ---- preference cache and consumer gates
    prefsCache,     \* redis: the stored UserPreferences of the userIds that have a key
    now,            \* wall-clock time <<hour, minute>> in the user's timezone
    hourCycle,      \* hour cycle Intl resolves for en-US with hour12: false
    config,         \* the ConsumerConfig startConsumer was given
    gateMsg,        \* the parsed message handed to processNotification: <<>> or <<n>>
    lastProc,       \* the last processNotification call: <<>> or <<its record>>
    \* ---- isInQuietHours applied to drawn inputs
    quietIn,        \* the preferences handed to isInQuietHours
    quietOut,       \* its result: <<>> before the call, <<result>> after
    \* ---- live stream registries and their sinks
    clients,        \* streamManager.ts registry: userId -> controller (sink)
    routeClients,   \* stream/route.ts registry: userId -> controller (sink)
    sinkState,      \* per controller: "unused", "open" or "closed"
    sinkFrames,     \* per controller: number of frames enqueued
    nextSink,       \* the next controller to be created
    replaced,       \* controllers whose registry entry was taken over by a new one
    lastSend,       \* the last send: <<>> or <<[userId, sink, ok, stale]>>
    connUser,       \* route.ts GET closure: the userId of the request, per controller
    connAborted,    \* route.ts GET closure: abortController.signal.aborted
    reqAborted,     \* route.ts GET: the request's abort event has fired
    hbTimer,        \* route.ts startHeartbeat: a heartbeat timer is pending
    \* ---- history lists (redis list notifications:user:<id>)
    history,        \* per userId: the stored list, newest first; <<>> = no key
    appended,       \* per userId: number of storeNotification calls so far
    sinceExpiry,    \* per userId: number of them since the key last expired
    clock,          \* Date.now() in milliseconds
    markLog,        \* the consecutive markNotificationAsRead calls just made (at most two)
    \* ---- the subscriber hook useSSE
    autoConnect,    \* the hook's autoConnect option
    sse,            \* the hook instance: React state, refs, transports and timers
    \* ---- the broker's main queue and the consume loop
    msgBody,        \* per message: what its content parses to
    consumerOnError,\* ConsumerConfig.onError: "absent", or given and "throws"
    queue,          \* main queue: the messages ready for delivery, head first
    unacked,        \* messages delivered on the open channel and not yet settled
    handling,       \* consume callbacks in progress: [msg, chan]
    chanGen,        \* the channel the consumer subscribed on (1, 2, ...)
    chanOpen,       \* that channel is open
    dlq,            \* messages routed to the dead-letter queue
    ledger,         \* per message: deliveries, settlements and handler outcomes
    lastRun,        \* the last consume callback that returned: <<>> or <<its record>>
    \* ---- broker topology, publisher and boot
    isSetupComplete,\* setup.ts: the readiness flag
    connected,      \* rabbitmq.ts: connection and channel are set
    isConnecting,   \* rabbitmq.ts: a connect() is awaiting amqp.connect
    calls,          \* number of operations started so far
    topology,       \* exchanges, queues and bindings that exist on the broker
    phase,          \* "booting" until register() returns, then "serving"
    proc,           \* per caller: the operation in progress and what it did
    handed,         \* messages written to the broker: [call, item]
    subscriptions,  \* consumers opened on the main queue
    \* ---- POST /api/notifications/send
    sendBody,       \* the request body as received
    sendResponse,   \* <<>> before the response, then <<[status, error]>>
    \* ---- preference store operations
    prefLast,       \* the last preference store call: <<>> or <<its record>>
    deletedSince,   \* per userId: "no", or how the delete since the last set ended
    \* ---- the broker connection manager (RabbitMQManager)
    rabbit,         \* its fields, the connect() in progress and the pending timers
    brokerUp,       \* the broker accepts connections
    \* ---- markNotificationAsRead calls in progress
    markCalls,      \* per caller: the call, what its lrange returned, its result
    lastDelete,     \* the last deleteNotification call: <<>> or <<its record>>
    \* ---- the broker's exchanges, bindings and queues as the publisher sees them
    routing,        \* what setup declared, the queues' contents, the last publish
    \* ---- consumer.ts: the module's consumer tag and the channel's consumers
    tags,           \* subscriptions, activeConsumerTag, the stopConsumer call in flight
    \* ---- the browser: stores/notification.ts and hooks/useNotifications.ts
    client          \* each implementation's list, unread count and pagination total

gateVars == <<prefsCache, now, hourCycle, config, gateMsg, lastProc>>
quietVars == <<quietIn, quietOut>>
sinkVars == <<sinkState, sinkFrames, nextSink, replaced, lastSend>>
routeVars == <<routeClients, connUser, connAborted, reqAborted, hbTimer>>
streamVars == <<clients, sinkVars, routeVars>>
historyVars == <<history, appended, sinceExpiry, clock, markLog>>
sseVars == <<autoConnect, sse>>
consumeVars == <<msgBody, consumerOnError, queue, unacked, handling, chanGen,
                 chanOpen, dlq, ledger, lastRun>>
topoVars == <<isSetupComplete, connected, isConnecting, calls, topology, phase, proc,
              handed, subscriptions>>
sendVars == <<sendBody, sendResponse>>
prefVars == <<prefLast, deletedSince>>
mqVars == <<rabbit, brokerUp>>
raceVars == <<markCalls, lastDelete>>
lateVars == <<routing, tags, client>>
apiVars == <<topoVars, sendVars, prefVars, mqVars, raceVars, lateVars>>
vars == <<gateVars, quietVars, streamVars, historyVars, sseVars, consumeVars, apiVars>>

\* What each component's steps leave alone.
gateOthers == <<quietVars, streamVars, historyVars, sseVars, consumeVars, apiVars>>
quietOthers == <<gateVars, streamVars, historyVars, sseVars, consumeVars, apiVars>>
streamOthers == <<gateVars, quietVars, historyVars, sseVars, consumeVars, apiVars>>
historyOthers == <<gateVars, quietVars, streamVars, sseVars, consumeVars, apiVars>>
sseOthers == <<gateVars, quietVars, streamVars, historyVars, consumeVars, apiVars>>
consumeOthers == <<quietVars, streamVars, historyVars, sseVars, apiVars>>
coreVars == <<gateVars, quietVars, streamVars, historyVars, sseVars, consumeVars>>
topoOthers == <<coreVars, sendVars, prefVars, mqVars, raceVars, lateVars>>
sendOthers == <<coreVars, prefVars, topoVars, mqVars, raceVars, lateVars>>
prefOthers == <<quietVars, streamVars, historyVars, sseVars, consumeVars, topoVars,
                sendVars, mqVars, raceVars, lateVars>>
mqOthers == <<coreVars, topoVars, sendVars, prefVars, raceVars, lateVars>>
raceOthers == <<gateVars, quietVars, streamVars, sseVars, consumeVars, topoVars,
                sendVars, prefVars, mqVars, lateVars>>
earlyVars == <<coreVars, topoVars, sendVars, prefVars, mqVars, raceVars>>
routingOthers == <<earlyVars, tags, client>>
tagsOthers == <<earlyVars, routing, client>>
clientOthers == <<earlyVars, routing, tags>>

(***************************************************************************)
(* Data model                                                              *)
(***************************************************************************)
Users == {"u1", "u2"}

NotificationTypes == {"email", "push", "in-app"}

Categories == {"marketing", "updates", "security", "social", "reminders"}

Channels == {"email", "push", "sms", "inApp"}

\* A time of day "HH:MM" is kept as the pair split(":").map(Number) yields.
HM(h, m) == <<h, m>>

DEFAULT_PREFERENCES ==
    [channels |-> [email |-> TRUE, push |-> TRUE, sms |-> FALSE, inApp |-> TRUE],
     categories |-> [marketing |-> FALSE, updates |-> TRUE, security |-> TRUE,
                     social |-> TRUE, reminders |-> TRUE],
     quietHours |-> [enabled |-> FALSE, start |-> HM(22, 0), end |-> HM(8, 0),
                     timezone |-> "UTC"],
     frequency |-> "realtime"]

\* Timezone names Intl.DateTimeFormat accepts; any other makes it throw.
ValidTimeZones == {"UTC"}

(***************************************************************************)
(* Preference store                                                        *)
(***************************************************************************)
\* Faulty variant: the entry is returned although the cache call failed.
getUserPreferencesIgnoresError(userId, cacheOk) ==
    IF userId \in DOMAIN prefsCache THEN prefsCache[userId] ELSE DEFAULT_PREFERENCES

\* redis.get succeeds (cacheOk) and finds the key: the stored entry; a miss or
\* a redis error: the defaults.
getUserPreferences(userId, cacheOk) ==
    IF cacheOk /\ userId \in DOMAIN prefsCache
    THEN prefsCache[userId]
    ELSE DEFAULT_PREFERENCES

(***************************************************************************)
(* Consumer gates                                                          *)
(***************************************************************************)
\* Intl.DateTimeFormat("en-US", {hour: "2-digit", hour12: false}) prints the
\* midnight hour as "00" under hour cycle h23 and as "24" under h24.
FormatHour(h) == IF hourCycle = "h24" /\ h = 0 THEN 24 ELSE h

ToMinutes(hm) == hm[1] * 60 + hm[2]

CurrentMinutes == FormatHour(now[1]) * 60 + now[2]

isInQuietHours(preferences) ==
    IF "quietHours" \notin DOMAIN preferences THEN FALSE
    ELSE IF ~preferences.quietHours.enabled THEN FALSE
    ELSE IF preferences.quietHours.timezone \notin ValidTimeZones THEN FALSE
    ELSE LET startMinutes == ToMinutes(preferences.quietHours.start)
             endMinutes == ToMinutes(preferences.quietHours.end)
         IN  IF startMinutes > endMinutes
             THEN CurrentMinutes >= startMinutes \/ CurrentMinutes < endMinutes
             ELSE CurrentMinutes >= startMinutes /\ CurrentMinutes < endMinutes

\* Faulty variant: push and in-app read each other's flag.
isChannelEnabledSwapped(type, preferences) ==
    CASE type = "email" -> preferences.channels.email
      [] type = "push" -> preferences.channels.inApp
      [] type = "in-app" -> preferences.channels.push
      [] OTHER -> FALSE

isChannelEnabled(type, preferences) ==
    CASE type = "email" -> preferences.channels.email
      [] type = "push" -> preferences.channels.push
      [] type = "in-app" -> preferences.channels.inApp
      [] OTHER -> FALSE

\* Faulty variant: the category flag is ignored.
isCategoryEnabledAlways(category, preferences) == TRUE

isCategoryEnabled(category, preferences) ==
    IF category \in DOMAIN preferences.categories
    THEN preferences.categories[category]
    ELSE FALSE

\* config.handlers?.[type] ?? defaultHandlers[type]
ResolveHandler(type, cfg) ==
    IF type \in cfg.handlers THEN "override"
    ELSE IF type \in NotificationTypes THEN "default"
    ELSE "missing"

\* Faulty variant: security is not exempt from quiet hours.
QuietGateNoBypass(inQuietHours, category) == inQuietHours

\* if (inQuietHours && notification.category !== "security") return;
QuietGate(inQuietHours, category) == inQuietHours /\ category # "security"

\* The outcome of processNotification on `notification` with the preferences
\* getUserPreferences returned: which handler ran, and how the call ended.
\* Only a caller-supplied handler can throw (handlerThrows); the default
\* handlers only log.
processNotification(notification, preferences, cfg, handlerThrows) ==
    LET channelEnabled == isChannelEnabled(notification.type, preferences)
        categoryEnabled == isCategoryEnabled(notification.category, preferences)
        inQuietHours == isInQuietHours(preferences)
        handler == ResolveHandler(notification.type, cfg)
    IN  IF ~channelEnabled THEN [invoked |-> "none", outcome |-> "channel"]
        ELSE IF ~categoryEnabled THEN [invoked |-> "none", outcome |-> "category"]
        ELSE IF QuietGate(inQuietHours, notification.category)
             THEN [invoked |-> "none", outcome |-> "quiet"]
        ELSE IF handler = "missing" THEN [invoked |-> "none", outcome |-> "threw"]
        ELSE IF handler = "override" /\ handlerThrows
             THEN [invoked |-> handler, outcome |-> "threw"]
        ELSE [invoked |-> handler, outcome |-> "delivered"]

(***************************************************************************)
(* Consumer gates: one processNotification call per step, on drawn inputs  *)
(***************************************************************************)
EmptyCache == [u \in {} |-> DEFAULT_PREFERENCES]

\* Quiet-hours windows the gate specification draws: overnight and same-day.
GateWindows == {<<HM(22, 0), HM(8, 0)>>, <<HM(9, 0), HM(17, 0)>>}

GateTimes == {HM(0, 30), HM(12, 0), HM(23, 0)}

GateQuietHours ==
    {[enabled |-> en, start |-> w[1], end |-> w[2], timezone |-> "UTC"] :
        en \in BOOLEAN, w \in GateWindows}

GateChannels ==
    {[email |-> e, push |-> p, sms |-> FALSE, inApp |-> i] :
        e \in BOOLEAN, p \in BOOLEAN, i \in BOOLEAN}

GateCategories ==
    {[marketing |-> FALSE, updates |-> cu, security |-> cs, social |-> TRUE,
      reminders |-> TRUE] : cu \in BOOLEAN, cs \in BOOLEAN}

\* Stored preferences: with a quietHours field, or without it (the field is
\* optional in UserPreferences).
GatePrefs ==
    {[channels |-> ch, categories |-> ca, quietHours |-> q, frequency |-> "realtime"] :
        ch \in GateChannels, ca \in GateCategories, q \in GateQuietHours}
    \cup
    {[channels |-> ch, categories |-> ca, frequency |-> "realtime"] :
        ch \in GateChannels, ca \in GateCategories}

\* Notifications as parsed from a message body: type and category are whatever
\* the body holds, so an unmapped type ("sms") can arrive.
GateNotifications ==
    [userId : Users, type : NotificationTypes \cup {"sms"},
     category : {"security", "updates", "marketing"}]

\* ConsumerConfig.handlers: the types with a caller-supplied handler.
GateConfigs == {[handlers |-> {}], [handlers |-> {"email", "in-app"}]}

GateInit ==
    /\ prefsCache \in {EmptyCache} \cup {[u \in {"u1"} |-> p] : p \in GatePrefs}
    /\ now \in GateTimes
    /\ hourCycle \in {"h23", "h24"}
    /\ config \in GateConfigs
    /\ gateMsg \in {<<n>> : n \in GateNotifications}
    /\ lastProc = <<>>

\* consumer.ts processNotification: fetch the preferences, apply the gates,
\* run the handler.
ProcessNotification(handlerThrows, cacheOk) ==
    /\ gateMsg # <<>>
    /\ LET notification == gateMsg[1]
           preferences == getUserPreferences(notification.userId, cacheOk)
           r == processNotification(notification, preferences, config, handlerThrows)
       IN  lastProc' = <<[notification |-> notification,
                          preferences |-> preferences,
                          invoked |-> r.invoked,
                          outcome |-> r.outcome]>>
    /\ gateMsg' = <<>>
    /\ UNCHANGED <<prefsCache, now, hourCycle, config>>
    /\ UNCHANGED gateOthers

(***************************************************************************)
(* isInQuietHours on drawn (quietHours, now) inputs                        *)
(***************************************************************************)
QuietTimes ==
    {HM(0, 0), HM(0, 30), HM(6, 0), HM(8, 0), HM(12, 0), HM(22, 0), HM(23, 59)}

QuietInputs ==
    {[channels |-> DEFAULT_PREFERENCES.channels,
      categories |-> DEFAULT_PREFERENCES.categories,
      quietHours |-> [enabled |-> en, start |-> s, end |-> e, timezone |-> tz],
      frequency |-> "realtime"] :
        en \in BOOLEAN, s \in QuietTimes, e \in QuietTimes,
        tz \in {"UTC", "Mars/Phobos"}}
    \cup
    {[channels |-> DEFAULT_PREFERENCES.channels,
      categories |-> DEFAULT_PREFERENCES.categories,
      frequency |-> "realtime"]}

QuietInit ==
    /\ quietIn \in QuietInputs
    /\ quietOut = <<>>

QuietIdle ==
    /\ quietIn = DEFAULT_PREFERENCES
    /\ quietOut = <<>>

EvalQuietHours ==
    /\ quietOut = <<>>
    /\ quietOut' = <<isInQuietHours(quietIn)>>
    /\ UNCHANGED quietIn
    /\ UNCHANGED quietOthers

(***************************************************************************)
(* Live stream registries                                                  *)
(***************************************************************************)
\* Controllers (sinks) the model may create.
MaxSinks == 3

\* Frames a controller may be sent before the model stops writing to it.
MaxFrames == 2

Sinks == 1..MaxSinks

NoRegistry == [u \in {} |-> 0]

\* Map.set / Map.delete on a registry.
MapSet(reg, userId, sink) ==
    [u \in DOMAIN reg \cup {userId} |-> IF u = userId THEN sink ELSE reg[u]]

MapDelete(reg, userId) == [u \in DOMAIN reg \ {userId} |-> reg[u]]

\* A variant in which a write to a controller never fails.
CanEnqueueAlways(sink) == TRUE

\* controller.enqueue throws once the stream is closed or cancelled.
CanEnqueue(sink) == sinkState[sink] = "open"

StreamInit ==
    /\ clients = NoRegistry
    /\ routeClients = NoRegistry
    /\ sinkState = [s \in Sinks |-> "unused"]
    /\ sinkFrames = [s \in Sinks |-> 0]
    /\ nextSink = 1
    /\ replaced = {}
    /\ lastSend = <<>>
    /\ connUser = [s \in Sinks |-> "none"]
    /\ connAborted = [s \in Sinks |-> FALSE]
    /\ reqAborted = [s \in Sinks |-> FALSE]
    /\ hbTimer = [s \in Sinks |-> FALSE]

\* streamManager.ts registerClient(userId, controller) with a new controller:
\* clients.set(userId, {controller, ...}); the entry it overwrites is not
\* closed.
RegisterClient(userId) ==
    /\ nextSink \in Sinks
    /\ clients' = MapSet(clients, userId, nextSink)
    /\ sinkState' = [sinkState EXCEPT ![nextSink] = "open"]
    /\ replaced' = replaced \cup (IF userId \in DOMAIN clients THEN {clients[userId]} ELSE {})
    /\ nextSink' = nextSink + 1
    /\ UNCHANGED <<sinkFrames, lastSend, routeVars>>
    /\ UNCHANGED streamOthers

\* streamManager.ts removeClient: close the controller (ignoring a throw when
\* it is closed already) and delete the entry.
RemoveClient(userId) ==
    /\ userId \in DOMAIN clients
    /\ sinkState' = [sinkState EXCEPT ![clients[userId]] = "closed"]
    /\ clients' = MapDelete(clients, userId)
    /\ UNCHANGED <<sinkFrames, nextSink, replaced, lastSend, routeVars>>
    /\ UNCHANGED streamOthers

\* A variant of the early return that reports the send as delivered.
noClientReportsSent(userId) == [userId |-> userId, sink |-> 0, ok |-> TRUE, stale |-> FALSE]

\* streamManager.ts sendNotificationToUser / sendEventToUser, the early return
\* `if (!client) return false`: what the caller gets when no entry exists.
noClient(userId) == [userId |-> userId, sink |-> 0, ok |-> FALSE, stale |-> FALSE]

\* streamManager.ts sendNotificationToUser / sendEventToUser: no entry: false;
\* enqueue succeeds: true; enqueue throws: removeClient(userId) and false.
SendToUser(userId) ==
    /\ IF userId \notin DOMAIN clients
       THEN /\ lastSend' = <<noClient(userId)>>
            /\ UNCHANGED <<clients, sinkState, sinkFrames>>
       ELSE LET sink == clients[userId]
            IN  IF CanEnqueue(sink)
                THEN /\ sinkFrames[sink] < MaxFrames
                     /\ sinkFrames' = [sinkFrames EXCEPT ![sink] = @ + 1]
                     /\ lastSend' = <<[userId |-> userId, sink |-> sink, ok |-> TRUE,
                                       stale |-> sink \in replaced]>>
                     /\ UNCHANGED <<clients, sinkState>>
                ELSE /\ sinkState' = [sinkState EXCEPT ![sink] = "closed"]
                     /\ clients' = MapDelete(clients, userId)
                     /\ lastSend' = <<[userId |-> userId, sink |-> sink, ok |-> FALSE,
                                       stale |-> sink \in replaced]>>
                     /\ UNCHANGED sinkFrames
    /\ UNCHANGED <<nextSink, replaced, routeVars>>
    /\ UNCHANGED streamOthers

\* The browser goes away: the response stream of an open controller is
\* cancelled, after which enqueue and close throw.
PeerCloses(sink) ==
    /\ sinkState[sink] = "open"
    /\ sink \in {clients[u] : u \in DOMAIN clients} \cup replaced
    /\ connUser[sink] = "none"
    /\ sinkState' = [sinkState EXCEPT ![sink] = "closed"]
    /\ UNCHANGED <<clients, sinkFrames, nextSink, replaced, lastSend, routeVars>>
    /\ UNCHANGED streamOthers

(***************************************************************************)
(* The SSE route's own registry (app/api/notifications/stream/route.ts)    *)
(***************************************************************************)
\* route.ts removeClient(userId) on the registry and the controllers.
RouteRemoveSinks(userId) ==
    IF userId \in DOMAIN routeClients
    THEN [sinkState EXCEPT ![routeClients[userId]] = "closed"]
    ELSE sinkState

\* GET: remove an existing connection of the user, create the stream, whose
\* start() registers the new controller, sends "connected" and starts the
\* heartbeat; then listen for the request's abort.
StreamGET(userId) ==
    /\ nextSink \in Sinks
    /\ sinkState' = [RouteRemoveSinks(userId) EXCEPT ![nextSink] = "open"]
    /\ routeClients' = MapSet(routeClients, userId, nextSink)
    /\ replaced' = replaced \cup
           (IF userId \in DOMAIN routeClients THEN {routeClients[userId]} ELSE {})
    /\ sinkFrames' = [sinkFrames EXCEPT ![nextSink] = 1]
    /\ connUser' = [connUser EXCEPT ![nextSink] = userId]
    /\ hbTimer' = [hbTimer EXCEPT ![nextSink] = TRUE]
    /\ nextSink' = nextSink + 1
    /\ UNCHANGED <<clients, lastSend, connAborted, reqAborted>>
    /\ UNCHANGED streamOthers

\* The stream's cancel(): the reader of an open response stream went away.
\* abortController.abort(); removeClient(userId).
StreamCancel(sink) ==
    /\ connUser[sink] # "none"
    /\ sinkState[sink] = "open"
    /\ connAborted' = [connAborted EXCEPT ![sink] = TRUE]
    /\ sinkState' = [RouteRemoveSinks(connUser[sink]) EXCEPT ![sink] = "closed"]
    /\ routeClients' = MapDelete(routeClients, connUser[sink])
    /\ UNCHANGED <<clients, sinkFrames, nextSink, replaced, lastSend, connUser,
                   reqAborted, hbTimer>>
    /\ UNCHANGED streamOthers

\* The request's "abort" event: abortController.abort(); removeClient(userId).
RequestAbort(sink) ==
    /\ connUser[sink] # "none"
    /\ ~reqAborted[sink]
    /\ reqAborted' = [reqAborted EXCEPT ![sink] = TRUE]
    /\ connAborted' = [connAborted EXCEPT ![sink] = TRUE]
    /\ sinkState' = RouteRemoveSinks(connUser[sink])
    /\ routeClients' = MapDelete(routeClients, connUser[sink])
    /\ UNCHANGED <<clients, sinkFrames, nextSink, replaced, lastSend, connUser, hbTimer>>
    /\ UNCHANGED streamOthers

\* startHeartbeat's timer callback for the connection that owns `sink`.
Heartbeat(sink) ==
    /\ hbTimer[sink]
    /\ IF connAborted[sink] \/ connUser[sink] \notin DOMAIN routeClients
       THEN /\ hbTimer' = [hbTimer EXCEPT ![sink] = FALSE]
            /\ UNCHANGED <<routeClients, sinkState, sinkFrames>>
       ELSE IF CanEnqueue(sink)
       THEN /\ sinkFrames[sink] < MaxFrames
            /\ sinkFrames' = [sinkFrames EXCEPT ![sink] = @ + 1]
            /\ UNCHANGED <<routeClients, sinkState, hbTimer>>
       ELSE /\ hbTimer' = [hbTimer EXCEPT ![sink] = FALSE]
            /\ sinkState' = RouteRemoveSinks(connUser[sink])
            /\ routeClients' = MapDelete(routeClients, connUser[sink])
            /\ UNCHANGED sinkFrames
    /\ UNCHANGED <<clients, nextSink, replaced, lastSend, connUser, connAborted,
                   reqAborted>>
    /\ UNCHANGED streamOthers

\* route.ts sendNotificationToUser.
RouteSendToUser(userId) ==
    /\ IF userId \notin DOMAIN routeClients
       THEN /\ lastSend' = <<[userId |-> userId, sink |-> 0, ok |-> FALSE, stale |-> FALSE]>>
            /\ UNCHANGED <<routeClients, sinkState, sinkFrames>>
       ELSE LET sink == routeClients[userId]
            IN  IF CanEnqueue(sink)
                THEN /\ sinkFrames[sink] < MaxFrames
                     /\ sinkFrames' = [sinkFrames EXCEPT ![sink] = @ + 1]
                     /\ lastSend' = <<[userId |-> userId, sink |-> sink, ok |-> TRUE,
                                       stale |-> sink \in replaced]>>
                     /\ UNCHANGED <<routeClients, sinkState>>
                ELSE /\ sinkState' = [sinkState EXCEPT ![sink] = "closed"]
                     /\ routeClients' = MapDelete(routeClients, userId)
                     /\ lastSend' = <<[userId |-> userId, sink |-> sink, ok |-> FALSE,
                                       stale |-> sink \in replaced]>>
                     /\ UNCHANGED sinkFrames
    /\ UNCHANGED <<clients, nextSink, replaced, connUser, connAborted, reqAborted, hbTimer>>
    /\ UNCHANGED streamOthers

(***************************************************************************)
(* History store (lib/services/notificationStore.ts)                       *)
(***************************************************************************)
MAX_NOTIFICATIONS_PER_USER == 100

\* Appends per user in the capped-list specification: enough to evict.
MaxAppend == 102

\* Appends of the second user in the capped-list specification.
MaxAppendOther == 2

\* Appends per user, and clock ticks, in the read-state specification.
MaxHistory == 2

MaxClock == 2

Min(a, b) == IF a < b THEN a ELSE b

\* A stored notification: JSON.stringify of {id, ..., readAt?}.  readAt is
\* <<>> when the field is absent and <<t>> when it holds the ISO form of
\* the instant t (toISOString has the clock's millisecond resolution).
Item(id, readAt) == [id |-> id, readAt |-> readAt]

\* redis list commands, for the index forms the store uses.
LPush(list, item) == <<item>> \o list

LTrim(list, start, stop) == SubSeq(list, start + 1, Min(stop + 1, Len(list)))

LSet(list, index, item) == [list EXCEPT ![index + 1] = item]

\* LREM key 1 item: removes the first element equal to item.
LRem1(list, item) ==
    IF \E i \in 1..Len(list) : list[i] = item
    THEN LET i == CHOOSE k \in 1..Len(list) :
                      list[k] = item /\ \A j \in 1..(k - 1) : list[j] # item
         IN  SubSeq(list, 1, i - 1) \o SubSeq(list, i + 1, Len(list))
    ELSE list

\* The index of the first entry with this id, as the for loops find it; 0 if none.
FirstIndexOf(list, notificationId) ==
    IF \E i \in 1..Len(list) : list[i].id = notificationId
    THEN CHOOSE k \in 1..Len(list) :
             list[k].id = notificationId
             /\ \A j \in 1..(k - 1) : list[j].id # notificationId
    ELSE 0

\* Faulty variant: the trim keeps one entry too many.
storeNotificationKeepsOneMore(list, item) ==
    LTrim(LPush(list, item), 0, MAX_NOTIFICATIONS_PER_USER)

\* storeNotification's effect on the list: lpush, then ltrim 0..MAX-1.
storeNotification(list, item) ==
    LTrim(LPush(list, item), 0, MAX_NOTIFICATIONS_PER_USER - 1)

\* markNotificationAsRead's effect on the list at instant t.
markNotificationAsRead(list, notificationId, t) ==
    LET i == FirstIndexOf(list, notificationId)
    IN  IF i = 0 THEN list
        ELSE LSet(list, i - 1, Item(list[i].id, <<t>>))

\* A variant that removes every entry with the id.
deleteNotificationAll(list, notificationId) ==
    SelectSeq(list, LAMBDA e : e.id # notificationId)

\* deleteNotification's effect on the list.
deleteNotification(list, notificationId) ==
    LET i == FirstIndexOf(list, notificationId)
    IN  IF i = 0 THEN list ELSE LRem1(list, list[i])

\* getUnreadCount: entries without a readAt.
getUnreadCount(list) == Cardinality({i \in 1..Len(list) : list[i].readAt = <<>>})

HistoryInit ==
    /\ history = [u \in Users |-> <<>>]
    /\ appended = [u \in Users |-> 0]
    /\ sinceExpiry = [u \in Users |-> 0]
    /\ clock = 0
    /\ markLog = <<>>

\* storeNotification(notification) for a notification not yet read.
StoreNotification(userId, id) ==
    /\ history' = [history EXCEPT ![userId] = storeNotification(@, Item(id, <<>>))]
    /\ appended' = [appended EXCEPT ![userId] = @ + 1]
    /\ sinceExpiry' = [sinceExpiry EXCEPT ![userId] = @ + 1]
    /\ markLog' = <<>>
    /\ UNCHANGED clock
    /\ UNCHANGED historyOthers

\* redis drops the key when NOTIFICATION_TTL has passed since the last
\* storeNotification for the user.
KeyExpires(userId) ==
    /\ history[userId] # <<>>
    /\ history' = [history EXCEPT ![userId] = <<>>]
    /\ sinceExpiry' = [sinceExpiry EXCEPT ![userId] = 0]
    /\ markLog' = <<>>
    /\ UNCHANGED <<appended, clock>>
    /\ UNCHANGED historyOthers

\* markNotificationAsRead(userId, notificationId).
MarkNotificationAsRead(userId, notificationId) ==
    LET after == markNotificationAsRead(history[userId], notificationId, clock)
        call == [userId |-> userId, id |-> notificationId,
                 ok |-> FirstIndexOf(history[userId], notificationId) # 0,
                 after |-> after]
    IN  /\ history' = [history EXCEPT ![userId] = after]
        /\ markLog' = IF Len(markLog) = 0 THEN <<call>> ELSE <<markLog[Len(markLog)], call>>
        /\ UNCHANGED <<appended, sinceExpiry, clock>>
        /\ UNCHANGED historyOthers

\* deleteNotification(userId, notificationId).
DeleteNotification(userId, notificationId) ==
    /\ history' = [history EXCEPT ![userId] = deleteNotification(@, notificationId)]
    /\ markLog' = <<>>
    /\ UNCHANGED <<appended, sinceExpiry, clock>>
    /\ UNCHANGED historyOthers

\* clearNotificationHistory(userId): redis.del.
ClearNotificationHistory(userId) ==
    /\ history' = [history EXCEPT ![userId] = <<>>]
    /\ sinceExpiry' = [sinceExpiry EXCEPT ![userId] = 0]
    /\ markLog' = <<>>
    /\ UNCHANGED <<appended, clock>>
    /\ UNCHANGED historyOthers

\* A millisecond passes.
Tick ==
    /\ clock < MaxClock
    /\ clock' = clock + 1
    /\ UNCHANGED <<history, appended, sinceExpiry, markLog>>
    /\ UNCHANGED historyOthers

(***************************************************************************)
(* Reconnecting subscriber (hooks/useSSE.ts, and its ref-based version)    *)
(***************************************************************************)
\* The maxReconnectAttempts option the hook is given.
maxReconnectAttempts == 2

\* EventSource objects one hook instance may create.
MaxSources == 7

Sources == 1..MaxSources

\* The hook before it is mounted.  `source` is eventSourceRef.current and
\* `timeoutRef` is reconnectTimeoutRef.current (0 = null); the timer set by
\* the onerror of EventSource i is timer i.  `closure[i]` is the value of
\* reconnectAttempts seen by the connect() that created EventSource i,
\* `rendered` the value seen by the latest render, and `effectDep` the value
\* seen by the connect the auto-connect effect last ran with (-1 = the
\* effect has not run).  `errors` and `scheduled` count the transport errors
\* and the reconnect timers set since the last "connected" event.
SSEUnmounted ==
    [status |-> "disconnected",
     reconnectAttempts |-> 0,
     attemptsRef |-> 0,
     source |-> 0,
     timeoutRef |-> 0,
     readyState |-> [i \in Sources |-> "unused"],
     closure |-> [i \in Sources |-> 0],
     timers |-> [i \in Sources |-> FALSE],
     mountTimer |-> FALSE,
     rendered |-> 0,
     effectDep |-> -1,
     nextSource |-> 1,
     last |-> "none",
     errors |-> 0,
     scheduled |-> 0]

SSEInit ==
    /\ autoConnect \in BOOLEAN
    /\ sse = SSEUnmounted

SSEIdle ==
    /\ autoConnect = TRUE
    /\ sse = SSEUnmounted

Mounted(s) == s.effectDep # -1

\* A state update has not been rendered yet: the next render gives connect
\* a new identity (reconnectAttempts is one of its dependencies).
RenderPending(s) == Mounted(s) /\ s.rendered # s.reconnectAttempts

CanCreateSource(s) == s.nextSource \in Sources

\* A variant of the guard that never finds a live EventSource.
AlreadyConnectingNever(s) == FALSE

\* connect() finds an EventSource that is not CLOSED and returns.
AlreadyConnecting(s) == s.source # 0 /\ s.readyState[s.source] # "closed"

clearReconnectTimeout(s) ==
    IF s.timeoutRef # 0
    THEN [s EXCEPT !.timers[s.timeoutRef] = FALSE, !.timeoutRef = 0]
    ELSE s

CloseSource(s) ==
    IF s.source # 0
    THEN [s EXCEPT !.readyState[s.source] = "closed", !.source = 0]
    ELSE s

\* hooks/useSSE.ts disconnect().
disconnect(s) ==
    [CloseSource(clearReconnectTimeout(s)) EXCEPT
        !.status = "disconnected", !.reconnectAttempts = 0]

\* hooks/useSSE.ts connect(), as the closure of a render that saw
\* reconnectAttempts = attempts.
connect(s, attempts) ==
    IF AlreadyConnecting(s) THEN s
    ELSE [s EXCEPT !.status = "connecting",
                   !.source = s.nextSource,
                   !.readyState[s.nextSource] = "connecting",
                   !.closure[s.nextSource] = attempts,
                   !.nextSource = @ + 1]

\* hooks/useSSE.ts: the "connected" listener of EventSource i.
onConnected(s, i) ==
    [s EXCEPT !.readyState[i] = "open",
              !.status = "connected",
              !.reconnectAttempts = 0]

\* hooks/useSSE.ts: the onerror handler of EventSource i; it compares the
\* reconnectAttempts its connect() closed over.
onError(s, i) ==
    LET closed == [s EXCEPT !.status = "error",
                            !.readyState[i] = "closed",
                            !.source = 0]
    IN  IF s.closure[i] < maxReconnectAttempts
        THEN [closed EXCEPT !.reconnectAttempts = @ + 1,
                            !.timers[i] = TRUE,
                            !.timeoutRef = i,
                            !.scheduled = @ + 1]
        ELSE [closed EXCEPT !.status = "disconnected"]

\* hooks/useSSE.ts: a render after a state update, and the auto-connect
\* effect (lines 145-153).  When connect has a new identity the previous
\* effect's cleanup, disconnect(), runs and then the effect body.
render(s, auto) ==
    LET r == [s EXCEPT !.rendered = s.reconnectAttempts]
    IN  IF r.rendered = s.effectDep THEN r
        ELSE LET cleaned == disconnect(r)
                 ran == IF auto THEN connect(cleaned, r.rendered) ELSE cleaned
             IN  [ran EXCEPT !.effectDep = r.rendered]

CountError(s) ==
    [s EXCEPT !.last = "error",
              !.errors = Min(@ + 1, maxReconnectAttempts + 2)]

NewEpisode(s, what) == [s EXCEPT !.last = what, !.errors = 0, !.scheduled = 0]

\* First render and first run of the auto-connect effect.
SSEMount ==
    /\ ~Mounted(sse)
    /\ sse' = [(IF autoConnect THEN connect(sse, 0) ELSE sse) EXCEPT !.effectDep = 0]
    /\ UNCHANGED autoConnect
    /\ UNCHANGED sseOthers

\* React renders the pending state update and runs the effects.  Renders
\* are scheduled, so other events may be handled before a pending one.
SSERender ==
    /\ RenderPending(sse)
    /\ CanCreateSource(sse)
    /\ sse' = render(sse, autoConnect)
    /\ UNCHANGED autoConnect
    /\ UNCHANGED sseOthers

\* The caller invokes the connect the hook returned.
SSEConnect ==
    /\ Mounted(sse)
    /\ CanCreateSource(sse)
    /\ sse' = [connect(sse, sse.rendered) EXCEPT !.last = "connect"]
    /\ UNCHANGED autoConnect
    /\ UNCHANGED sseOthers

\* The caller invokes the disconnect the hook returned.
SSEDisconnect ==
    /\ Mounted(sse)
    /\ sse' = NewEpisode(disconnect(sse), "disconnect")
    /\ UNCHANGED autoConnect
    /\ UNCHANGED sseOthers

\* The server's "connected" event arrives on EventSource i.
SSEConnected(i) ==
    /\ sse.readyState[i] = "connecting"
    /\ sse' = NewEpisode(onConnected(sse, i), "connected")
    /\ UNCHANGED autoConnect
    /\ UNCHANGED sseOthers

\* A transport error on EventSource i.
SSEError(i) ==
    /\ sse.readyState[i] \in {"connecting", "open"}
    /\ sse' = CountError(onError(sse, i))
    /\ UNCHANGED autoConnect
    /\ UNCHANGED sseOthers

\* The reconnect timer set by EventSource i's onerror fires: it calls the
\* connect that onerror closed over.
SSETimerFires(i) ==
    /\ sse.timers[i]
    /\ CanCreateSource(sse)
    /\ sse' = [connect([sse EXCEPT !.timers[i] = FALSE], sse.closure[i])
                  EXCEPT !.last = "timer"]
    /\ UNCHANGED autoConnect
    /\ UNCHANGED sseOthers

(***************************************************************************)
(* The ref-based version of the hook: the counter is a ref, status and     *)
(* counter are mirrored into the client store, connect has one identity.   *)
(***************************************************************************)
\* disconnect().
disconnectRef(s) ==
    [CloseSource(clearReconnectTimeout(s)) EXCEPT
        !.attemptsRef = 0, !.status = "disconnected",
        !.reconnectAttempts = 0, !.rendered = 0]

\* connect().
connectRef(s) ==
    IF AlreadyConnecting(s) THEN s
    ELSE [s EXCEPT !.status = "connecting",
                   !.source = s.nextSource,
                   !.readyState[s.nextSource] = "connecting",
                   !.nextSource = @ + 1]

\* The "connected" listener of EventSource i.
onConnectedRef(s, i) ==
    [s EXCEPT !.readyState[i] = "open",
              !.attemptsRef = 0,
              !.status = "connected",
              !.reconnectAttempts = 0,
              !.rendered = 0]

\* The onerror handler of EventSource i.
onErrorRef(s, i) ==
    LET closed == [s EXCEPT !.status = "error",
                            !.readyState[i] = "closed",
                            !.source = 0]
    IN  IF s.attemptsRef < maxReconnectAttempts
        THEN [closed EXCEPT !.attemptsRef = s.attemptsRef + 1,
                            !.reconnectAttempts = s.attemptsRef + 1,
                            !.rendered = s.attemptsRef + 1,
                            !.timers[i] = TRUE,
                            !.timeoutRef = i,
                            !.scheduled = @ + 1]
        ELSE [closed EXCEPT !.status = "disconnected"]

\* The effects of the first render: connectRef.current = connect, and the
\* auto-connect effect, which defers connect() with setTimeout(0).
RefMount ==
    /\ ~Mounted(sse)
    /\ sse' = [sse EXCEPT !.effectDep = 0, !.mountTimer = autoConnect]
    /\ UNCHANGED autoConnect
    /\ UNCHANGED sseOthers

RefMountTimerFires ==
    /\ sse.mountTimer
    /\ CanCreateSource(sse)
    /\ sse' = [connectRef([sse EXCEPT !.mountTimer = FALSE]) EXCEPT !.last = "timer"]
    /\ UNCHANGED autoConnect
    /\ UNCHANGED sseOthers

\* The caller invokes connect / disconnect.
RefConnect ==
    /\ Mounted(sse)
    /\ CanCreateSource(sse)
    /\ sse' = [connectRef(sse) EXCEPT !.last = "connect"]
    /\ UNCHANGED autoConnect
    /\ UNCHANGED sseOthers

RefDisconnect ==
    /\ Mounted(sse)
    /\ sse' = NewEpisode(disconnectRef(sse), "disconnect")
    /\ UNCHANGED autoConnect
    /\ UNCHANGED sseOthers

RefConnected(i) ==
    /\ sse.readyState[i] = "connecting"
    /\ sse' = NewEpisode(onConnectedRef(sse, i), "connected")
    /\ UNCHANGED autoConnect
    /\ UNCHANGED sseOthers

RefError(i) ==
    /\ sse.readyState[i] \in {"connecting", "open"}
    /\ sse' = CountError(onErrorRef(sse, i))
    /\ UNCHANGED autoConnect
    /\ UNCHANGED sseOthers

\* The reconnect timer fires: connectRef.current().
RefTimerFires(i) ==
    /\ sse.timers[i]
    /\ CanCreateSource(sse)
    /\ sse' = [connectRef([sse EXCEPT !.timers[i] = FALSE]) EXCEPT !.last = "timer"]
    /\ UNCHANGED autoConnect
    /\ UNCHANGED sseOthers

(***************************************************************************)
(* Consume loop (lib/rabbitmq.ts consume, consumer.ts startConsumer)       *)
(***************************************************************************)
Msgs == {"m1", "m2"}

\* Deliveries of one message.
MaxDeliveries == 2

\* Channels the consumer subscribes on, one after the other.
MaxChannels == 2

\* Unsettled deliveries the broker allows on the channel (prefetch).
MaxInflight == 2

\* What a message's content parses to: nothing (JSON.parse throws), an
\* object without a notification, or a NotificationPayload.
Garbage ==
    [parseable |-> FALSE, hasNotification |-> FALSE,
     notification |-> [userId |-> "u1", type |-> "email", category |-> "updates"]]

NoNotification ==
    [parseable |-> TRUE, hasNotification |-> FALSE,
     notification |-> [userId |-> "u1", type |-> "email", category |-> "updates"]]

Payload(n) == [parseable |-> TRUE, hasNotification |-> TRUE, notification |-> n]

ConsumeNotifications ==
    {[userId |-> "u1", type |-> "email", category |-> "updates"],
     [userId |-> "u1", type |-> "email", category |-> "marketing"]}

Bodies == {Garbage, NoNotification} \cup {Payload(n) : n \in ConsumeNotifications}

\* The contents drawn for the second message.
SecondBodies == {Garbage, Payload([userId |-> "u1", type |-> "email", category |-> "updates"])}

NoLedger == [deliveries |-> 0, acks |-> 0, nacks |-> 0, closed |-> 0,
             ok |-> 0, failed |-> 0, lostOk |-> 0, lostFailed |-> 0,
             suppressed |-> 0, suppressedOpen |-> 0]

\* The main queue holds the published messages; the consumer has subscribed
\* on its first channel.
ConsumeInit ==
    /\ msgBody \in {b \in [Msgs -> Bodies] : b["m2"] \in SecondBodies}
    /\ consumerOnError \in {"absent", "throws"}
    /\ queue = <<"m1", "m2">>
    /\ unacked = {}
    /\ handling = {}
    /\ chanGen = 1
    /\ chanOpen = TRUE
    /\ dlq = {}
    /\ ledger = [m \in Msgs |-> NoLedger]
    /\ lastRun = <<>>

\* Nothing published, no consumer callback in progress.
ConsumeIdle ==
    /\ msgBody = [m \in Msgs |-> Garbage]
    /\ consumerOnError = "absent"
    /\ queue = <<>>
    /\ unacked = {}
    /\ handling = {}
    /\ chanGen = 1
    /\ chanOpen = TRUE
    /\ dlq = {}
    /\ ledger = [m \in Msgs |-> NoLedger]
    /\ lastRun = <<>>

\* startConsumer's message callback (consumer.ts 219-243) throws when
\* parseMessage throws, when the payload has no notification to read, or
\* when processNotification throws.
callbackThrows(body, cacheOk, handlerThrows) ==
    \/ ~body.parseable
    \/ ~body.hasNotification
    \/ processNotification(body.notification,
                           getUserPreferences(body.notification.userId, cacheOk),
                           config, handlerThrows).outcome = "threw"

\* How the callback ends: "unparsed" when the body gives no notification,
\* otherwise the way processNotification ends.
callbackOutcome(body, cacheOk, handlerThrows) ==
    IF ~body.parseable \/ ~body.hasNotification THEN "unparsed"
    ELSE processNotification(body.notification,
                             getUserPreferences(body.notification.userId, cacheOk),
                             config, handlerThrows).outcome

\* The outcomes in which a gate of processNotification returned early.
Suppressed == {"channel", "category", "quiet"}

\* Faulty variant: onError is called although the message does not parse.
onErrorCalledUnparsed(body, threw) == threw /\ consumerOnError # "absent"

\* Faulty variant: onError is called after every callback, thrown or not.
onErrorCalledAlways(body, threw) == consumerOnError # "absent" /\ body.parseable

\* The callback's catch block calls config.onError when one is given and
\* the message parses again; what onError throws is swallowed.
onErrorCalled(body, threw) == threw /\ consumerOnError # "absent" /\ body.parseable

\* Faulty variant: nack without requeue, which dead-letters the message.
consumeRequeueOff == FALSE

\* channel.nack(msg, false, true): the requeue argument.
consumeRequeue == TRUE

\* Faulty variant: the message is acked whether or not the handler threw.
settleAlwaysAck(threw, open) == IF open THEN <<"ack">> ELSE <<>>

\* rabbitmq.consume's wrapper (lines 303-327): await handler(msg), then
\* channel.ack(msg); in the catch, channel.nack(msg, false, requeue).  On a
\* closed channel ack throws into the catch and nack throws out of it, so
\* nothing is sent.
settle(threw, open) ==
    IF ~open THEN <<>>
    ELSE IF threw THEN <<"nack">>
    ELSE <<"ack">>

\* rabbitmq.consume's wrapper on a closed channel: ack throws into the
\* catch, whose nack throws too, so the wrapper's promise rejects with
\* nothing to catch it.
wrapperRejects(threw, open) == ~open

\* The broker delivers the head of the queue to the consumer.
Deliver ==
    /\ chanOpen
    /\ queue # <<>>
    /\ Cardinality(unacked) < MaxInflight
    /\ ledger[Head(queue)].deliveries < MaxDeliveries
    /\ LET m == Head(queue)
       IN  /\ queue' = Tail(queue)
           /\ unacked' = unacked \cup {m}
           /\ handling' = handling \cup {[msg |-> m, chan |-> chanGen]}
           /\ ledger' = [ledger EXCEPT ![m].deliveries = @ + 1]
    /\ UNCHANGED <<msgBody, consumerOnError, chanGen, chanOpen, dlq, lastRun>>
    /\ UNCHANGED <<prefsCache, now, hourCycle, config, gateMsg, lastProc>>
    /\ UNCHANGED consumeOthers

\* A consume callback returns or throws, and the wrapper settles the message.
HandlerReturns(h, cacheOk, handlerThrows) ==
    /\ h \in handling
    /\ LET m == h.msg
           threw == callbackThrows(msgBody[m], cacheOk, handlerThrows)
           open == chanOpen /\ h.chan = chanGen
           sent == settle(threw, open)
           outcome == callbackOutcome(msgBody[m], cacheOk, handlerThrows)
           gated == IF outcome \in Suppressed THEN 1 ELSE 0
           acked == sent = <<"ack">>
           nacked == sent = <<"nack">>
       IN  /\ handling' = handling \ {h}
           /\ unacked' = IF acked \/ nacked THEN unacked \ {m} ELSE unacked
           /\ queue' = IF nacked /\ consumeRequeue THEN <<m>> \o queue ELSE queue
           /\ dlq' = IF nacked /\ ~consumeRequeue THEN dlq \cup {m} ELSE dlq
           /\ ledger' =
                  [ledger EXCEPT
                      ![m].acks = @ + (IF acked THEN 1 ELSE 0),
                      ![m].nacks = @ + (IF nacked /\ consumeRequeue THEN 1 ELSE 0),
                      ![m].ok = @ + (IF threw THEN 0 ELSE 1),
                      ![m].failed = @ + (IF threw THEN 1 ELSE 0),
                      ![m].lostOk = @ + (IF ~open /\ ~threw THEN 1 ELSE 0),
                      ![m].lostFailed = @ + (IF ~open /\ threw THEN 1 ELSE 0),
                      ![m].suppressed = @ + gated,
                      ![m].suppressedOpen = @ + (IF open THEN gated ELSE 0)]
           /\ lastRun' = <<[msg |-> m, threw |-> threw, open |-> open, sent |-> sent,
                            outcome |-> outcome,
                            escaped |-> wrapperRejects(threw, open),
                            onError |-> onErrorCalled(msgBody[m], threw)]>>
    /\ UNCHANGED <<msgBody, consumerOnError, chanGen, chanOpen>>
    /\ UNCHANGED <<prefsCache, now, hourCycle, config, gateMsg, lastProc>>
    /\ UNCHANGED consumeOthers

\* The broker connection is lost (rabbitmq.ts connection "error" / "close"):
\* the channel closes and the broker puts its unsettled deliveries back.
ChannelCloses ==
    /\ chanOpen
    /\ chanOpen' = FALSE
    /\ \E back \in [1..Cardinality(unacked) -> unacked] :
           /\ \A m \in unacked : \E i \in DOMAIN back : back[i] = m
           /\ queue' = back \o queue
    /\ unacked' = {}
    /\ ledger' = [m \in Msgs |->
                     IF m \in unacked
                     THEN [ledger[m] EXCEPT !.closed = @ + 1]
                     ELSE ledger[m]]
    /\ UNCHANGED <<msgBody, consumerOnError, handling, chanGen, dlq, lastRun>>
    /\ UNCHANGED <<prefsCache, now, hourCycle, config, gateMsg, lastProc>>
    /\ UNCHANGED consumeOthers

\* startConsumer is called again: rabbitmq.consume gets a new channel and
\* subscribes on it.
Resubscribe ==
    /\ ~chanOpen
    /\ chanGen < MaxChannels
    /\ chanGen' = chanGen + 1
    /\ chanOpen' = TRUE
    /\ UNCHANGED <<msgBody, consumerOnError, queue, unacked, handling, dlq, ledger,
                   lastRun>>
    /\ UNCHANGED <<prefsCache, now, hourCycle, config, gateMsg, lastProc>>
    /\ UNCHANGED consumeOthers

(***************************************************************************)
(* Broker topology, publisher and boot                                     *)
(* (lib/notifications/setup.ts, publisher.ts, instrumentation.ts)          *)
(***************************************************************************)
\* Operations the request-side callers start, in all.
MaxCalls == 2

\* Inputs of one publishNotifications call.
BatchLen == 2

\* The broker operations of setupNotificationInfrastructure, in the order
\* it awaits them.
SetupSteps ==
    <<"assertExchange:dlx", "assertExchange:notifications", "assertQueue:dlq",
      "bindQueue:dlq:dead-letter", "assertQueue:main", "bindQueue:main:email",
      "bindQueue:main:push", "bindQueue:main:in-app">>

\* Both exchanges, both queues, the dead-letter binding and the three
\* routing-key bindings.
AllTopology == {SetupSteps[i] : i \in DOMAIN SetupSteps}

\* Faulty variant: the flag is set before the last binding is made.
FlagStepEarly == Len(SetupSteps) - 1

\* isSetupComplete = true follows the last awaited bindQueue.
FlagStep == Len(SetupSteps)

\* register() at boot, and the callers that run once the server accepts
\* traffic.
Requesters == {"r1", "r2"}

Procs == {"boot"} \cup Requesters

\* What a caller calls: setupNotificationInfrastructure itself,
\* publishNotification, publishNotifications, or startConsumer.
Ops == {"setup", "publish", "batch", "startConsumer"}

NoCall ==
    [op |-> "none", pc |-> "idle", step |-> 0, connecting |-> FALSE, call |-> 0,
     issued |-> FALSE, startedReady |-> FALSE, setupResult |-> "none", log |-> <<>>,
     sent |-> 0, result |-> "none"]

TopoIdle ==
    /\ isSetupComplete = FALSE
    /\ connected = FALSE
    /\ isConnecting = FALSE
    /\ calls = 0
    /\ topology = {}
    /\ phase = "booting"
    /\ proc = [p \in Procs |-> NoCall]
    /\ handed = {}
    /\ subscriptions = 0

\* Module load: isSetupComplete = false, no connection, register() not yet
\* called.
TopoInit == TopoIdle

\* Faulty variant: the operation goes on without ensuring the topology.
needsSetupNever(ready) == FALSE

\* if (!isInfrastructureReady()) await setupNotificationInfrastructure();
needsSetup(ready) == ~ready

\* Faulty variant: setup is run again although it has completed.
alreadySetUpIgnored == FALSE

\* if (isSetupComplete) return;
alreadySetUp == isSetupComplete

\* Faulty variant: the loop goes on to the next input after a failure.
batchContinuesPastFailure(ok, item) == item < BatchLen

\* for (const input of inputs) await publishNotification(input): a rejected
\* publish leaves the loop.
batchContinues(ok, item) == ok /\ item < BatchLen

\* Where an operation goes once the topology is ensured.
Body(op) == IF op \in {"register", "startConsumer"} THEN "consume" ELSE "publish"

\* The operation goes on after setupNotificationInfrastructure returned; a
\* direct call of it is then complete.
Continue(c) ==
    IF c.op = "setup" THEN [c EXCEPT !.pc = "idle", !.result = "ok"]
    ELSE [c EXCEPT !.pc = Body(c.op)]

\* The call of setupNotificationInfrastructure, up to its first await.
EnterSetup(c) ==
    IF alreadySetUp
    THEN Continue([c EXCEPT !.startedReady = isSetupComplete, !.issued = FALSE,
                            !.setupResult = "returned"])
    ELSE [c EXCEPT !.startedReady = isSetupComplete, !.issued = FALSE,
                   !.setupResult = "running", !.pc = "setup", !.step = 0]

\* An await rejects: setup logs and rethrows, publishNotification and
\* startConsumer let it through, register() catches and logs it.
Throw(c) ==
    [c EXCEPT !.pc = "idle", !.connecting = FALSE, !.step = 0,
              !.setupResult = IF c.pc = "setup" THEN "threw" ELSE @,
              !.result = IF c.op = "register" THEN "caught" ELSE "failed"]

\* The operation completes.
Done(c) == [c EXCEPT !.pc = "idle", !.result = "ok"]

\* The caller's step takes its record to new; the server accepts traffic
\* once register() has returned.
Becomes(p, new) ==
    /\ proc' = [proc EXCEPT ![p] = new]
    /\ phase' = IF p = "boot" /\ new.pc = "idle" THEN "serving" ELSE phase

NeedsChannel(c) == (c.pc = "setup" /\ c.step >= 1) \/ c.pc \in {"publish", "consume"}

\* instrumentation.ts register(): setupNotificationInfrastructure, then
\* startConsumer, inside one try.
Register ==
    /\ phase = "booting"
    /\ proc["boot"].op = "none"
    /\ calls' = calls + 1
    /\ Becomes("boot", EnterSetup([NoCall EXCEPT !.op = "register", !.call = calls + 1,
                                                 !.result = "running"]))
    /\ UNCHANGED <<isSetupComplete, connected, isConnecting, topology, handed,
                   subscriptions>>
    /\ UNCHANGED topoOthers

\* A caller starts an operation, up to its first await.
Call(p, op) ==
    /\ phase = "serving"
    /\ proc[p].pc = "idle"
    /\ calls <= MaxCalls
    /\ calls' = calls + 1
    /\ LET c == [NoCall EXCEPT !.op = op, !.call = calls + 1, !.result = "running"]
       IN  Becomes(p, IF op = "setup" \/ needsSetup(isSetupComplete)
                      THEN EnterSetup(c)
                      ELSE [c EXCEPT !.pc = Body(op)])
    /\ UNCHANGED <<isSetupComplete, connected, isConnecting, topology, handed,
                   subscriptions>>
    /\ UNCHANGED topoOthers

\* rabbitmq.connect() in setup returns at once: a connection exists, or
\* another connect is in progress.
SetupConnect(p) ==
    /\ proc[p].pc = "setup"
    /\ proc[p].step = 0
    /\ ~proc[p].connecting
    /\ connected \/ isConnecting
    /\ Becomes(p, [proc[p] EXCEPT !.step = 1])
    /\ UNCHANGED <<isSetupComplete, connected, isConnecting, calls, topology,
                   handed, subscriptions>>
    /\ UNCHANGED topoOthers

\* connect(), from setup or from getChannel: no connection and none in
\* progress, so amqp.connect is awaited.
ConnectBegins(p) ==
    /\ (proc[p].pc = "setup" /\ proc[p].step = 0) \/ NeedsChannel(proc[p])
    /\ ~proc[p].connecting
    /\ ~connected
    /\ ~isConnecting
    /\ isConnecting' = TRUE
    /\ Becomes(p, [proc[p] EXCEPT !.connecting = TRUE,
                                  !.issued = (@ \/ proc[p].pc = "setup")])
    /\ UNCHANGED <<isSetupComplete, connected, calls, topology, handed,
                   subscriptions>>
    /\ UNCHANGED topoOthers

\* amqp.connect and createChannel resolve, or reject (handleDisconnect,
\* rethrow).
ConnectEnds(p, ok) ==
    /\ proc[p].connecting
    /\ isConnecting' = FALSE
    /\ connected' = ok
    /\ LET c == proc[p]
       IN  Becomes(p, IF ok
                      THEN [c EXCEPT !.connecting = FALSE,
                                     !.step = IF c.pc = "setup" /\ c.step = 0
                                              THEN 1 ELSE @,
                                     !.issued = (@ \/ c.pc = "setup")]
                      ELSE Throw(c))
    /\ UNCHANGED <<isSetupComplete, calls, topology, handed, subscriptions>>
    /\ UNCHANGED topoOthers

\* getChannel while another caller's connect is in progress: connect()
\* returns at once and "RabbitMQ channel not available" is thrown.
ChannelUnavailable(p) ==
    /\ NeedsChannel(proc[p])
    /\ ~proc[p].connecting
    /\ ~connected
    /\ isConnecting
    /\ Becomes(p, Throw(proc[p]))
    /\ UNCHANGED <<isSetupComplete, connected, isConnecting, calls, topology,
                   handed, subscriptions>>
    /\ UNCHANGED topoOthers

\* One awaited assertExchange / assertQueue / bindQueue of setup resolves or
\* rejects; after the last one the flag is set and setup returns.
SetupStep(p, ok) ==
    /\ proc[p].pc = "setup"
    /\ proc[p].step >= 1
    /\ connected
    /\ LET c == proc[p]
           issued == [c EXCEPT !.issued = TRUE]
       IN  /\ topology' = IF ok THEN topology \cup {SetupSteps[c.step]} ELSE topology
           /\ isSetupComplete' = (isSetupComplete \/ (ok /\ c.step = FlagStep))
           /\ Becomes(p, IF ~ok THEN Throw(issued)
                         ELSE IF c.step = Len(SetupSteps)
                         THEN Continue([issued EXCEPT !.setupResult = "returned"])
                         ELSE [issued EXCEPT !.step = @ + 1])
    /\ UNCHANGED <<connected, isConnecting, calls, handed, subscriptions>>
    /\ UNCHANGED topoOthers

\* rabbitmq.publish in publishNotification: channel.publish accepts the
\* message ("accepted"), writes it and reports a full buffer by returning
\* false ("full": publishNotification throws), or throws ("error").
Publish(p, outcome) ==
    /\ proc[p].pc = "publish"
    /\ connected
    /\ LET c == proc[p]
           item == Len(c.log) + 1
           ok == outcome = "accepted"
           written == outcome \in {"accepted", "full"}
           logged == [c EXCEPT !.log = Append(@, [item |-> item, ok |-> ok]),
                               !.sent = IF written THEN @ + 1 ELSE @]
       IN  /\ handed' = IF written
                        THEN handed \cup {[call |-> c.call, item |-> item]}
                        ELSE handed
           /\ Becomes(p, IF c.op = "batch" /\ batchContinues(ok, item) THEN logged
                         ELSE IF ok THEN Done(logged)
                         ELSE Throw(logged))
    /\ UNCHANGED <<isSetupComplete, connected, isConnecting, calls, topology,
                   subscriptions>>
    /\ UNCHANGED topoOthers

\* startConsumer's channel.prefetch and rabbitmq.consume resolve, or one of
\* them rejects.
Subscribe(p, ok) ==
    /\ proc[p].pc = "consume"
    /\ connected
    /\ subscriptions' = IF ok THEN subscriptions + 1 ELSE subscriptions
    /\ Becomes(p, IF ok THEN Done([proc[p] EXCEPT !.sent = @ + 1])
                  ELSE Throw(proc[p]))
    /\ UNCHANGED <<isSetupComplete, connected, isConnecting, calls, topology,
                   handed>>
    /\ UNCHANGED topoOthers

\* The connection's "error" / "close" listener runs handleDisconnect, which
\* drops the connection and the channel.
ConnectionLost ==
    /\ connected
    /\ connected' = FALSE
    /\ UNCHANGED <<isSetupComplete, isConnecting, calls, topology, phase, proc,
                   handed, subscriptions>>
    /\ UNCHANGED topoOthers

(***************************************************************************)
(* POST /api/notifications/send                                            *)
(***************************************************************************)
\* A JSON value of a request field: its typeof (with "undefined" for an
\* absent field, "null" and "array" told apart) and its content.
Undefined == [t |-> "undefined", v |-> ""]

Str(v) == [t |-> "string", v |-> v]

Num(v) == [t |-> "number", v |-> v]

Arr(v) == [t |-> "array", v |-> v]

\* JavaScript truthiness of a JSON value.
Truthy(x) ==
    /\ x.t \notin {"undefined", "null"}
    /\ ~(x.t = "string" /\ x.v = "")
    /\ ~(x.t = "number" /\ x.v = "0")

\* list.includes(x): strict equality with one of the strings of the list.
Includes(list, x) == x.t = "string" /\ x.v \in list

validCategories == {"marketing", "updates", "security", "social", "reminders"}

\* The request bodies drawn: text that is not JSON, the JSON value null, and
\* objects whose five fields are absent, of the wrong type, outside the
\* allowed set, or valid.
SendObjects ==
    [kind : {"object"},
     userId : {Undefined, Str(""), Num("42"), Str("u1")},
     type : {Undefined, Str("sms"), Arr("email"), Str("email")},
     title : {Undefined, Str(""), Str("t")},
     body : {Undefined, Num("7"), Str("b")},
     category : {Undefined, Str("other"), Str("updates")}]

NotAnObject(kind) ==
    [kind |-> kind, userId |-> Undefined, type |-> Undefined, title |-> Undefined,
     body |-> Undefined, category |-> Undefined]

SendBodies == SendObjects \cup {NotAnObject("unparsable"), NotAnObject("null")}

\* if (!type || !["email", "push", "in-app"].includes(type))
typeRejected(type) == ~Truthy(type) \/ ~Includes({"email", "push", "in-app"}, type)

\* The handler up to publishNotification: the response it returns early,
\* <<>> when the request passes.  request.json() throws on text that is not
\* JSON and destructuring throws on null; both land in the catch.
validateSend(b) ==
    IF b.kind \in {"unparsable", "null"}
    THEN <<[status |-> 500, error |-> "Failed to publish notification"]>>
    ELSE IF ~Truthy(b.userId) \/ b.userId.t # "string"
    THEN <<[status |-> 400, error |-> "userId is required and must be a string"]>>
    ELSE IF typeRejected(b.type)
    THEN <<[status |-> 400, error |-> "type must be one of: email, push, in-app"]>>
    ELSE IF ~Truthy(b.title) \/ b.title.t # "string"
    THEN <<[status |-> 400, error |-> "title is required and must be a string"]>>
    ELSE IF ~Truthy(b.body) \/ b.body.t # "string"
    THEN <<[status |-> 400, error |-> "body is required and must be a string"]>>
    ELSE IF ~Truthy(b.category) \/ ~Includes(validCategories, b.category)
    THEN <<[status |-> 400, error |-> "category must be one of"]>>
    ELSE <<>>

\* getRoutingKey(type): throws for a type outside the three known ones.
getRoutingKeyThrows(type) == ~Includes({"email", "push", "in-app"}, type)

SendIdle ==
    /\ sendBody = NotAnObject("null")
    /\ sendResponse = <<>>

\* The server after a boot that succeeded: topology provisioned, flag set,
\* consumer subscribed; one request has arrived.
SendInit ==
    /\ sendBody \in SendBodies
    /\ sendResponse = <<>>
    /\ isSetupComplete = TRUE
    /\ connected = TRUE
    /\ isConnecting = FALSE
    /\ calls = 1
    /\ topology = AllTopology
    /\ phase = "serving"
    /\ proc = [p \in Procs |->
                  IF p = "boot"
                  THEN [NoCall EXCEPT !.op = "register", !.call = 1, !.result = "ok",
                                      !.setupResult = "returned", !.issued = TRUE,
                                      !.step = Len(SetupSteps), !.sent = 1]
                  ELSE NoCall]
    /\ handed = {}
    /\ subscriptions = 1

\* POST: validate, then publishNotification (the flag is set, so it goes
\* straight to rabbitmq.publish), then the response.
SendPOST(outcome) ==
    /\ sendResponse = <<>>
    /\ isSetupComplete
    /\ LET early == validateSend(sendBody)
           throws == getRoutingKeyThrows(sendBody.type) \/ outcome # "accepted"
           written == ~getRoutingKeyThrows(sendBody.type)
                          /\ outcome \in {"accepted", "full"}
       IN  IF early # <<>>
           THEN /\ sendResponse' = early
                /\ UNCHANGED <<calls, handed>>
           ELSE /\ calls' = calls + 1
                /\ handed' = IF written
                             THEN handed \cup {[call |-> calls + 1, item |-> 1]}
                             ELSE handed
                /\ sendResponse' =
                       IF throws
                       THEN <<[status |-> 500, error |-> "Failed to publish notification"]>>
                       ELSE <<[status |-> 201, error |-> ""]>>
    /\ UNCHANGED <<sendBody, isSetupComplete, connected, isConnecting, topology,
                   phase, proc, subscriptions>>
    /\ UNCHANGED sendOthers

(***************************************************************************)
(* Preference store operations (lib/services/userPreferences.ts) and the   *)
(* PUT /api/preferences route.  userId and updatedAt, which every write    *)
(* stamps anew, are left out of the records.                               *)
(***************************************************************************)
PrefKeys == {"channels", "categories", "quietHours", "frequency"}

\* The partial updates drawn: one channel and one category, quiet hours, or
\* the frequency.
PrefUpdates ==
    {[channels |-> [email |-> FALSE], categories |-> [marketing |-> TRUE]],
     [quietHours |-> [enabled |-> TRUE, start |-> HM(9, 0), end |-> HM(17, 0),
                      timezone |-> "UTC"]],
     [frequency |-> "daily"]}

\* The argument setUserPreferences receives: the fields given, and its own
\* property names.  A direct call passes the update itself.
DirectArg(update) == [given |-> update, own |-> DOMAIN update]

\* The PUT route passes { channels, categories, quietHours, frequency }: all
\* four names are own properties, undefined where the body had none.
RouteArg(update) == [given |-> update, own |-> PrefKeys]

\* { ...a, ...b } for objects of booleans.
Spread(a, b) == [k \in DOMAIN a \cup DOMAIN b |-> IF k \in DOMAIN b THEN b[k] ELSE a[k]]

NoEntries == [k \in {} |-> FALSE]

\* The value of one field of updatedPrefs: <<>> for undefined, else <<v>>.
\* { ...existing, ...preferences } takes every own property of the
\* argument, an undefined one too; channels and categories are spread key
\* by key; quietHours is preferences.quietHours ?? existing.quietHours.
updatedField(existing, arg, k) ==
    IF k \in {"channels", "categories"}
    THEN <<Spread(existing[k], IF k \in DOMAIN arg.given THEN arg.given[k] ELSE NoEntries)>>
    ELSE IF k = "quietHours"
    THEN IF k \in DOMAIN arg.given THEN <<arg.given[k]>>
         ELSE IF k \in DOMAIN existing THEN <<existing[k]>>
         ELSE <<>>
    ELSE IF k \in arg.own
    THEN IF k \in DOMAIN arg.given THEN <<arg.given[k]>> ELSE <<>>
    ELSE IF k \in DOMAIN existing THEN <<existing[k]>>
    ELSE <<>>

\* The record setUserPreferences stores: JSON.stringify(updatedPrefs) leaves
\* out the fields whose value is undefined.
setUserPreferences(existing, arg) ==
    [k \in {f \in PrefKeys : Len(updatedField(existing, arg, f)) > 0} |->
        updatedField(existing, arg, k)[1]]

\* Faulty variant: the key is left in place.
redisDelKeeps(cache, userId) == cache

\* redis.del(cacheKey)
redisDel(cache, userId) == MapDelete(cache, userId)

\* What a reader finds stored for the user, or the defaults.
StoredOrDefault(userId) ==
    IF userId \in DOMAIN prefsCache THEN prefsCache[userId] ELSE DEFAULT_PREFERENCES

PrefIdle ==
    /\ prefLast = <<>>
    /\ deletedSince = [u \in Users |-> "no"]

\* The user whose preferences the drawn calls update.
PrefWriters == {"u1"}

\* The cache after setUserPreferences("u2", { frequency: "weekly" }) on an
\* empty cache.
PrefInit ==
    /\ PrefIdle
    /\ prefsCache = [u \in {"u2"} |-> [DEFAULT_PREFERENCES EXCEPT !.frequency = "weekly"]]

\* getUserPreferences(userId): redis.get resolves (cacheOk) or rejects.
PrefGet(userId, cacheOk) ==
    /\ prefLast' = <<[op |-> "get", userId |-> userId, cacheOk |-> cacheOk,
                      hit |-> userId \in DOMAIN prefsCache,
                      stored |-> StoredOrDefault(userId),
                      afterDelete |-> deletedSince[userId],
                      threw |-> FALSE,
                      result |-> getUserPreferences(userId, cacheOk)]>>
    /\ UNCHANGED <<prefsCache, deletedSince>>
    /\ UNCHANGED <<now, hourCycle, config, gateMsg, lastProc>>
    /\ UNCHANGED prefOthers

\* setUserPreferences(userId, preferences), called directly or by the PUT
\* route: read the existing record, merge, redis.set with the TTL; a
\* rejected redis.set makes it throw.
PrefSet(userId, update, viaRoute, readOk, writeOk) ==
    /\ LET arg == IF viaRoute THEN RouteArg(update) ELSE DirectArg(update)
           existing == getUserPreferences(userId, readOk)
           updated == setUserPreferences(existing, arg)
       IN  /\ prefsCache' = IF writeOk THEN MapSet(prefsCache, userId, updated)
                            ELSE prefsCache
           /\ deletedSince' = IF writeOk THEN [deletedSince EXCEPT ![userId] = "no"]
                              ELSE deletedSince
           /\ prefLast' = <<[op |-> "set", userId |-> userId, update |-> update,
                             viaRoute |-> viaRoute, readOk |-> readOk,
                             previous |-> StoredOrDefault(userId),
                             threw |-> ~writeOk, result |-> updated]>>
    /\ UNCHANGED <<now, hourCycle, config, gateMsg, lastProc>>
    /\ UNCHANGED prefOthers

\* deleteUserPreferences(userId): redis.del resolves with the number of keys
\* removed, or rejects and the function returns false.
PrefDelete(userId, delOk) ==
    /\ prefsCache' = IF delOk THEN redisDel(prefsCache, userId) ELSE prefsCache
    /\ deletedSince' = [deletedSince EXCEPT ![userId] = IF delOk THEN "done" ELSE "failed"]
    /\ prefLast' = <<[op |-> "delete", userId |-> userId, threw |-> FALSE,
                      result |-> delOk /\ userId \in DOMAIN prefsCache]>>
    /\ UNCHANGED <<now, hourCycle, config, gateMsg, lastProc>>
    /\ UNCHANGED prefOthers

\* The key reaches its TTL (CACHE_TTL, refreshed by every set) and redis
\* drops it.
PrefExpires(userId) ==
    /\ userId \in DOMAIN prefsCache
    /\ prefsCache' = MapDelete(prefsCache, userId)
    /\ UNCHANGED <<prefLast, deletedSince>>
    /\ UNCHANGED <<now, hourCycle, config, gateMsg, lastProc>>
    /\ UNCHANGED prefOthers

(***************************************************************************)
(* The broker connection manager (lib/rabbitmq.ts RabbitMQManager)         *)
(***************************************************************************)
\* config.maxRetries the manager is constructed with.
maxRetries == 4

\* Reconnect timers that may be pending at once.
MaxTimers == 5

\* A new manager: no handles, not connecting, retryCount 0.  `pc` is where
\* the connect() in progress is waiting, `timers` the number of pending
\* setTimeout(() => this.connect(), reconnectInterval).
NewManager ==
    [connection |-> FALSE, channel |-> FALSE, isConnecting |-> FALSE,
     retryCount |-> 0, timers |-> 0, pc |-> "idle"]

MqIdle == rabbit = NewManager /\ brokerUp = TRUE

MqInit == rabbit = NewManager /\ brokerUp \in BOOLEAN

\* A variant of handleDisconnect that schedules a reconnect every time.
handleDisconnectAlways(r) ==
    [r EXCEPT !.connection = FALSE, !.channel = FALSE,
              !.retryCount = @ + 1, !.timers = @ + 1]

\* handleDisconnect(): drop both handles; below maxRetries count the retry
\* and set a timer that calls connect().
handleDisconnect(r) ==
    LET dropped == [r EXCEPT !.connection = FALSE, !.channel = FALSE]
    IN  IF r.retryCount < maxRetries
        THEN [dropped EXCEPT !.retryCount = @ + 1, !.timers = @ + 1]
        ELSE dropped

\* connect() up to its first await: return when both handles are set or a
\* connect is in progress, otherwise set isConnecting and call amqp.connect.
connectBegins(r) ==
    IF (r.connection /\ r.channel) \/ r.isConnecting
    THEN r
    ELSE [r EXCEPT !.isConnecting = TRUE, !.pc = "connect"]

\* connect()'s catch and finally: handleDisconnect, rethrow, isConnecting
\* = false.
connectFails(r) == [handleDisconnect(r) EXCEPT !.isConnecting = FALSE, !.pc = "idle"]

\* A reconnect timer fires: connect().
MqTimerFires ==
    /\ rabbit.timers > 0
    /\ rabbit' = connectBegins([rabbit EXCEPT !.timers = @ - 1])
    /\ UNCHANGED brokerUp
    /\ UNCHANGED mqOthers

\* getChannel() of some caller finds no channel and calls connect().
MqGetChannel ==
    /\ ~rabbit.channel
    /\ ~rabbit.isConnecting
    /\ rabbit' = connectBegins(rabbit)
    /\ UNCHANGED brokerUp
    /\ UNCHANGED mqOthers

\* amqp.connect settles: the connection handle is stored and createChannel
\* is awaited, or connect() fails.
MqAmqpConnectSettles ==
    /\ rabbit.pc = "connect"
    /\ rabbit' = IF brokerUp
                 THEN [rabbit EXCEPT !.connection = TRUE, !.pc = "createChannel"]
                 ELSE connectFails(rabbit)
    /\ rabbit'.timers <= MaxTimers
    /\ UNCHANGED brokerUp
    /\ UNCHANGED mqOthers

\* createChannel settles: the channel handle is stored, the listeners are
\* attached and retryCount is reset, or connect() fails.
MqCreateChannelSettles ==
    /\ rabbit.pc = "createChannel"
    /\ rabbit' = IF brokerUp
                 THEN [rabbit EXCEPT !.channel = TRUE, !.retryCount = 0,
                                     !.isConnecting = FALSE, !.pc = "idle"]
                 ELSE connectFails(rabbit)
    /\ rabbit'.timers <= MaxTimers
    /\ UNCHANGED brokerUp
    /\ UNCHANGED mqOthers

\* The established connection emits "close", alone or right after "error":
\* each listener calls handleDisconnect().
MqConnectionEvent(withError) ==
    /\ rabbit.connection /\ rabbit.channel
    /\ rabbit' = IF withError
                 THEN handleDisconnect(handleDisconnect(rabbit))
                 ELSE handleDisconnect(rabbit)
    /\ rabbit'.timers <= MaxTimers
    /\ UNCHANGED brokerUp
    /\ UNCHANGED mqOthers

\* The broker becomes unreachable, or reachable again.
BrokerChanges ==
    /\ brokerUp' = ~brokerUp
    /\ UNCHANGED rabbit
    /\ UNCHANGED mqOthers

(***************************************************************************)
(* markNotificationAsRead as its two redis commands                        *)
(* (lib/services/notificationStore.ts 63-87)                               *)
(***************************************************************************)
\* The concurrent callers.
Callers == {"a", "b"}

\* Ids the callers ask for; the lists hold ids 1 and 2.
RaceIds == 1..3

\* No call made.  `index` is the position the loop found in the lrange
\* result `snapshot` (0 = none), `readAt` the instant it stamped, `ok` the
\* value returned, `raced` whether the other call had read and not yet
\* written when this one read.
NoMarkCall ==
    [pc |-> "idle", userId |-> "u1", id |-> 0, snapshot |-> <<>>, index |-> 0,
     readAt |-> 0, ok |-> FALSE, raced |-> FALSE]

RaceIdle == markCalls = [c \in Callers |-> NoMarkCall] /\ lastDelete = <<>>

\* A variant that writes the caller's whole lrange result back.
lsetMarkedWholeList(list, call) ==
    LSet(call.snapshot, call.index - 1, Item(call.id, <<call.readAt>>))

\* redis.lset(key, i, JSON.stringify(notification)) with the entry the loop
\* stamped: only position i of the stored list is written.
lsetMarked(list, call) ==
    LSet(list, call.index - 1, Item(call.id, <<call.readAt>>))

\* redis.lrange resolves and the loop runs: no entry with the id: return
\* false; else stamp readAt on the first one and issue the lset.
MarkReads(c, notificationId) ==
    /\ markCalls[c].pc = "idle"
    /\ LET list == history["u1"]
           i == FirstIndexOf(list, notificationId)
           other == CHOOSE d \in Callers : d # c
           raced == markCalls[other].pc = "read"
       IN  markCalls' =
               [markCalls EXCEPT
                   ![c] = [pc |-> IF i = 0 THEN "done" ELSE "read",
                           userId |-> "u1", id |-> notificationId,
                           snapshot |-> list, index |-> i, readAt |-> clock,
                           ok |-> FALSE, raced |-> raced],
                   ![other].raced = @ \/ raced]
    /\ UNCHANGED lastDelete
    /\ UNCHANGED historyVars
    /\ UNCHANGED raceOthers

\* redis executes the lset and the call returns true.
MarkWrites(c) ==
    /\ markCalls[c].pc = "read"
    /\ history' = [history EXCEPT !["u1"] = lsetMarked(@, markCalls[c])]
    /\ markCalls' = [markCalls EXCEPT ![c].pc = "done", ![c].ok = TRUE]
    /\ UNCHANGED lastDelete
    /\ UNCHANGED <<appended, sinceExpiry, clock, markLog>>
    /\ UNCHANGED raceOthers

(***************************************************************************)
(* deleteNotification with its return value                                *)
(* (lib/services/notificationStore.ts 92-115)                              *)
(***************************************************************************)
\* Longest list handed to deleteNotification.
MaxDeleteLen == 3

\* Stored entries: ids 1 and 2, unread or read at instant 0.
DeleteItems == {Item(id, r) : id \in 1..2, r \in {<<>>, <<0>>}}

\* The lists of at most MaxDeleteLen entries; an id may be stored twice.
DeleteLists == UNION {[1..n -> DeleteItems] : n \in 0..MaxDeleteLen}

\* deleteNotification(userId, notificationId): lrange, the loop, lrem of
\* the first entry with the id and true; false when there is none, and
\* false from the catch when a redis command fails.
DeleteCall(notificationId, redisOk) ==
    LET list == history["u1"]
        found == FirstIndexOf(list, notificationId) # 0
    IN  /\ history' = [history EXCEPT !["u1"] =
                           IF redisOk THEN deleteNotification(list, notificationId)
                           ELSE list]
        /\ lastDelete' = <<[id |-> notificationId, before |-> list,
                             redisOk |-> redisOk, ok |-> redisOk /\ found]>>
        /\ UNCHANGED <<appended, sinceExpiry, clock, markLog, markCalls>>
        /\ UNCHANGED raceOthers

(***************************************************************************)
(* Routing of published notifications                                      *)
(* (lib/notifications/publisher.ts, setup.ts, types.ts)                    *)
(***************************************************************************)
\* Messages the main queue may hold.
MaxPublished == 3

\* types.ts ROUTING_KEYS, as the words between the dots.
ROUTING_KEYS ==
    [EMAIL |-> <<"notification", "email">>,
     PUSH |-> <<"notification", "push">>,
     IN_APP |-> <<"notification", "in-app">>,
     ALL |-> <<"notification", "*">>]

\* The types handed to publishNotification: the three of NotificationType
\* and two others.
PublishTypes == {"email", "push", "in-app", "sms", "webhook"}

\* A variant of getRoutingKey that builds the key from the type's letters.
getRoutingKeyFromLetters(type) ==
    CASE type = "email" -> <<<<"notification", "email">>>>
      [] type = "push" -> <<<<"notification", "push">>>>
      [] type = "in-app" -> <<<<"notification", "inapp">>>>
      [] OTHER -> <<>>

\* publisher.ts getRoutingKey(type): <<key>>, or <<>> when it throws.
getRoutingKey(type) ==
    CASE type = "email" -> <<ROUTING_KEYS.EMAIL>>
      [] type = "push" -> <<ROUTING_KEYS.PUSH>>
      [] type = "in-app" -> <<ROUTING_KEYS.IN_APP>>
      [] OTHER -> <<>>

\* The broker operations of setupNotificationInfrastructure with their
\* arguments, in the order it awaits them.
RoutingSetup ==
    <<[op |-> "assertExchange", exchange |-> "notifications.dlx", type |-> "direct"],
      [op |-> "assertExchange", exchange |-> "notifications.exchange", type |-> "topic"],
      [op |-> "assertQueue", queue |-> "notifications.dlq"],
      [op |-> "bindQueue", queue |-> "notifications.dlq",
       exchange |-> "notifications.dlx", key |-> <<"dead-letter">>],
      [op |-> "assertQueue", queue |-> "notifications.queue"],
      [op |-> "bindQueue", queue |-> "notifications.queue",
       exchange |-> "notifications.exchange", key |-> ROUTING_KEYS.EMAIL],
      [op |-> "bindQueue", queue |-> "notifications.queue",
       exchange |-> "notifications.exchange", key |-> ROUTING_KEYS.PUSH],
      [op |-> "bindQueue", queue |-> "notifications.queue",
       exchange |-> "notifications.exchange", key |-> ROUTING_KEYS.IN_APP]>>

\* The broker's matching of a topic binding key against a routing key:
\* "*" stands for one word, "#" for any number of words.
RECURSIVE TopicMatches(_, _)
TopicMatches(pattern, key) ==
    IF pattern = <<>> THEN key = <<>>
    ELSE IF Head(pattern) = "#"
    THEN TopicMatches(Tail(pattern), key)
         \/ (key # <<>> /\ TopicMatches(pattern, Tail(key)))
    ELSE /\ key # <<>>
         /\ Head(pattern) \in {"*", Head(key)}
         /\ TopicMatches(Tail(pattern), Tail(key))

\* The queues the broker copies a message to: those bound to the exchange
\* with a key that matches, by the exchange's type.
RoutedTo(r, exchange, key) ==
    {b.queue : b \in
        {b \in r.bindings :
            /\ b.exchange = exchange
            /\ \E e \in r.exchanges :
                   /\ e.exchange = exchange
                   /\ IF e.type = "topic" THEN TopicMatches(b.key, key)
                      ELSE b.key = key}}

\* The broker after the first n operations of the setup.
RECURSIVE Declared(_, _)
Declared(r, n) ==
    IF n = 0 THEN r
    ELSE LET before == Declared(r, n - 1)
             step == RoutingSetup[n]
         IN  CASE step.op = "assertExchange" ->
                      [before EXCEPT !.exchanges =
                          @ \cup {[exchange |-> step.exchange, type |-> step.type]}]
               [] step.op = "assertQueue" ->
                      [before EXCEPT !.queues = @ \cup {step.queue}]
               [] OTHER ->
                      [before EXCEPT !.bindings =
                          @ \cup {[queue |-> step.queue, exchange |-> step.exchange,
                                    key |-> step.key]}]

\* Nothing declared, nothing published.  `ready` is setup.ts's
\* isSetupComplete, `main` the content of the main queue (the types of
\* its messages), `last` the last publishNotification call.
RoutingIdle ==
    routing = [ready |-> FALSE, exchanges |-> {}, queues |-> {}, bindings |-> {},
               main |-> <<>>, last |-> <<>>]

\* publishNotification(input) with input.type = type: the setup when the
\* flag is not set (its operation number failAt rejects, 0 = none), then
\* getRoutingKey, then rabbitmq.publish, which the channel accepts or
\* answers with false.
PublishNotification(type, failAt, accepted) ==
    /\ Len(routing.main) < MaxPublished
    /\ routing.ready => failAt = 0
    /\ LET setUp == IF routing.ready THEN routing
                    ELSE IF failAt = 0
                    THEN [Declared(routing, Len(RoutingSetup)) EXCEPT !.ready = TRUE]
                    ELSE Declared(routing, failAt - 1)
           key == getRoutingKey(type)
           passed == failAt = 0 /\ key # <<>>
           targets == IF passed
                      THEN RoutedTo(setUp, "notifications.exchange", key[1])
                      ELSE {}
       IN  routing' =
               [setUp EXCEPT
                   !.main = IF "notifications.queue" \in targets
                            THEN Append(@, type) ELSE @,
                   !.last = <<[type |-> type, key |-> key, handed |-> passed,
                               targets |-> targets,
                               threw |-> ~passed \/ ~accepted]>>]
    /\ UNCHANGED routingOthers

\* The consumer takes the oldest message off the main queue.
RoutingConsume ==
    /\ routing.main # <<>>
    /\ routing' = [routing EXCEPT !.main = Tail(@)]
    /\ UNCHANGED routingOthers

(***************************************************************************)
(* Starting and stopping the consumer (lib/notifications/consumer.ts)      *)
(***************************************************************************)
\* Consumer tags the broker hands out: 1..MaxTags; 0 stands for null and
\* for an omitted argument.
MaxTags == 3

\* No stopConsumer call in flight.
NoStop == [pc |-> "idle", arg |-> 0, tagToCancel |-> 0, tracked |-> 0, raced |-> FALSE]

\* The module as loaded: activeConsumerTag = null, nothing subscribed.
TagsIdle ==
    tags = [subscribed |-> {}, activeConsumerTag |-> 0, nextTag |-> 1,
            stop |-> NoStop, last |-> <<>>]

\* A variant of the comparison after the cancel that always clears.
activeAfterStopCleared(tagToCancel, active) == 0

\* stopConsumer after the cancel: `if (tagToCancel === activeConsumerTag)
\* activeConsumerTag = null`.
activeAfterStop(tagToCancel, active) ==
    IF tagToCancel = active THEN 0 ELSE active

\* startConsumer from the moment rabbitmq.consume settles: the broker's
\* fresh tag is subscribed and becomes activeConsumerTag; when consume (or
\* the setup before it) rejects, the call throws with nothing changed.
StartConsumer(ok) ==
    /\ tags.nextTag <= MaxTags
    /\ tags' =
          IF ok
          THEN [tags EXCEPT
                   !.subscribed = @ \cup {tags.nextTag},
                   !.activeConsumerTag = tags.nextTag,
                   !.nextTag = @ + 1,
                   !.stop.raced = tags.stop.pc = "cancel",
                   !.last = <<[op |-> "start", arg |-> 0, tag |-> tags.nextTag,
                               threw |-> FALSE]>>]
          ELSE [tags EXCEPT
                   !.last = <<[op |-> "start", arg |-> 0, tag |-> 0, threw |-> TRUE]>>]
    /\ UNCHANGED tagsOthers

\* stopConsumer(consumerTag) up to its await: tagToCancel is the argument
\* or, without one, activeConsumerTag; with neither it returns.
StopConsumerBegins(consumerTag) ==
    /\ tags.stop.pc = "idle"
    /\ LET tagToCancel == IF consumerTag # 0 THEN consumerTag
                          ELSE tags.activeConsumerTag
       IN  tags' =
               IF tagToCancel = 0
               THEN [tags EXCEPT
                        !.last = <<[op |-> "stop", arg |-> consumerTag, tag |-> 0,
                                    threw |-> FALSE]>>]
               ELSE [tags EXCEPT
                        !.stop = [pc |-> "cancel", arg |-> consumerTag,
                                  tagToCancel |-> tagToCancel,
                                  tracked |-> tags.activeConsumerTag,
                                  raced |-> FALSE]]
    /\ UNCHANGED tagsOthers

\* rabbitmq.cancelConsumer(tagToCancel) settles: the channel drops that
\* consumer and the tag is compared with activeConsumerTag as it is now;
\* when the cancel rejects, stopConsumer throws there.
StopConsumerSettles(ok) ==
    /\ tags.stop.pc = "cancel"
    /\ tags' =
          IF ok
          THEN [tags EXCEPT
                   !.subscribed = @ \ {tags.stop.tagToCancel},
                   !.activeConsumerTag =
                       activeAfterStop(tags.stop.tagToCancel, tags.activeConsumerTag),
                   !.stop = NoStop,
                   !.last = <<[op |-> "stop", arg |-> tags.stop.arg,
                               tag |-> tags.stop.tagToCancel, threw |-> FALSE]>>]
          ELSE [tags EXCEPT
                   !.stop = NoStop,
                   !.last = <<[op |-> "stop", arg |-> tags.stop.arg, tag |-> 0,
                               threw |-> TRUE]>>]
    /\ UNCHANGED tagsOthers

(***************************************************************************)
(* The browser's notification list                                         *)
(* (stores/notification.ts, hooks/useNotifications.ts)                     *)
(***************************************************************************)
\* The pagination total up to which notifications are added.
MaxClientTotal == 4

\* Notifications arriving at the browser: an id and a readAt (0 = unset).
ClientNotifications == [id : 1..2, readAt : 0..1]

\* Both implementations start with an empty list and zero counts.
NoClientState == [notifications |-> <<>>, unreadCount |-> 0, total |-> 0]

ClientIdle == client = [store |-> NoClientState, hook |-> NoClientState]

\* `notifications.some((n) => n.id === notification.id)`
someId(notifications, id) ==
    \E i \in 1..Len(notifications) : notifications[i].id = id

\* stores/notification.ts addNotification: one set() whose updater
\* returns the state itself when the id is present.
storeAddNotification(state, notification) ==
    IF someId(state.notifications, notification.id)
    THEN state
    ELSE [notifications |-> <<notification>> \o state.notifications,
          unreadCount |-> IF notification.readAt # 0 THEN state.unreadCount
                          ELSE state.unreadCount + 1,
          total |-> state.total + 1]

\* hooks/useNotifications.ts addNotification: setNotifications with the
\* duplicate test, then setUnreadCount and setPagination outside it.
hookAddNotification(state, notification) ==
    [notifications |-> IF someId(state.notifications, notification.id)
                       THEN state.notifications
                       ELSE <<notification>> \o state.notifications,
     unreadCount |-> IF notification.readAt = 0 THEN state.unreadCount + 1
                     ELSE state.unreadCount,
     total |-> state.total + 1]

\* The store's addNotification is called (optimistic path or push stream).
StoreAddNotification(notification) ==
    /\ client.store.total < MaxClientTotal
    /\ client' = [client EXCEPT !.store = storeAddNotification(@, notification)]
    /\ UNCHANGED clientOthers

\* The hook's addNotification is called.
HookAddNotification(notification) ==
    /\ client.hook.total < MaxClientTotal
    /\ client' = [client EXCEPT !.hook = hookAddNotification(@, notification)]
    /\ UNCHANGED clientOthers

\* The components added last, at rest.
LateIdle == RoutingIdle /\ TagsIdle /\ ClientIdle

\* The request-side components at rest.
ApiIdle == TopoIdle /\ SendIdle /\ PrefIdle /\ MqIdle /\ RaceIdle /\ LateIdle

(***************************************************************************)
(* Specifications                                                          *)
(***************************************************************************)
\* The consumer's gates.
InitGate == GateInit /\ QuietIdle /\ StreamInit /\ HistoryInit /\ SSEIdle /\ ApiIdle /\ ConsumeIdle

NextGate == \E t \in BOOLEAN, ok \in BOOLEAN : ProcessNotification(t, ok)

SpecGate == InitGate /\ [][NextGate]_vars

\* isInQuietHours as a function of its inputs.
InitQuiet ==
    /\ QuietInit
    /\ StreamInit
    /\ HistoryInit
    /\ SSEIdle
    /\ ConsumeIdle
    /\ ApiIdle
    /\ prefsCache = EmptyCache
    /\ now \in QuietTimes
    /\ hourCycle \in {"h23", "h24"}
    /\ config = [handlers |-> {}]
    /\ gateMsg = <<>>
    /\ lastProc = <<>>

NextQuiet == EvalQuietHours

SpecQuiet == InitQuiet /\ [][NextQuiet]_vars

\* The consumer's gates at rest: nothing cached, nothing in flight.
GateIdle ==
    /\ prefsCache = EmptyCache
    /\ now = HM(12, 0)
    /\ hourCycle = "h23"
    /\ config = [handlers |-> {}]
    /\ gateMsg = <<>>
    /\ lastProc = <<>>

\* The streamManager registry.
InitStream == GateIdle /\ QuietIdle /\ StreamInit /\ HistoryInit /\ SSEIdle /\ ApiIdle /\ ConsumeIdle

NextStream ==
    \/ \E u \in Users : RegisterClient(u)
    \/ \E u \in Users : RemoveClient(u)
    \/ \E u \in Users : SendToUser(u)
    \/ \E s \in Sinks : PeerCloses(s)

SpecStream == InitStream /\ [][NextStream]_vars

\* The SSE route and its registry.
NextRoute ==
    \/ \E u \in Users : StreamGET(u)
    \/ \E s \in Sinks : StreamCancel(s)
    \/ \E s \in Sinks : RequestAbort(s)
    \/ \E s \in Sinks : Heartbeat(s)
    \/ \E u \in Users : RouteSendToUser(u)

SpecRoute == InitStream /\ [][NextRoute]_vars

\* The capped history list under appends and key expiry.
InitAppend == GateIdle /\ QuietIdle /\ StreamInit /\ HistoryInit /\ SSEIdle /\ ApiIdle /\ ConsumeIdle

AppendLimit(userId) == IF userId = "u1" THEN MaxAppend ELSE MaxAppendOther

NextAppend ==
    \/ \E u \in Users :
           appended[u] < AppendLimit(u) /\ StoreNotification(u, appended[u] + 1)
    \/ \E u \in Users : KeyExpires(u)

SpecAppend == InitAppend /\ [][NextAppend]_vars

\* The history list under every store operation, with a clock.
HistIds == 1..MaxHistory

NextHistory ==
    \/ \E u \in Users :
           appended[u] < MaxHistory /\ StoreNotification(u, appended[u] + 1)
    \/ \E u \in Users, id \in HistIds : MarkNotificationAsRead(u, id)
    \/ \E u \in Users, id \in HistIds : DeleteNotification(u, id)
    \/ \E u \in Users : ClearNotificationHistory(u)
    \/ \E u \in Users : KeyExpires(u)
    \/ Tick

SpecHistory == InitAppend /\ [][NextHistory]_vars

\* The subscriber hook of hooks/useSSE.ts.
InitSSE == GateIdle /\ QuietIdle /\ StreamInit /\ HistoryInit /\ SSEInit /\ ApiIdle /\ ConsumeIdle

NextSSE ==
    \/ SSEMount
    \/ SSERender
    \/ SSEConnect
    \/ SSEDisconnect
    \/ \E i \in Sources : SSEConnected(i)
    \/ \E i \in Sources : SSEError(i)
    \/ \E i \in Sources : SSETimerFires(i)

SpecSSE == InitSSE /\ [][NextSSE]_vars

\* The ref-based subscriber hook.
NextSSERef ==
    \/ RefMount
    \/ RefMountTimerFires
    \/ RefConnect
    \/ RefDisconnect
    \/ \E i \in Sources : RefConnected(i)
    \/ \E i \in Sources : RefError(i)
    \/ \E i \in Sources : RefTimerFires(i)

SpecSSERef == InitSSE /\ [][NextSSERef]_vars

\* The consume loop: the consumer's gates, with the default preferences,
\* on the messages of the main queue.
InitConsume ==
    /\ prefsCache = EmptyCache
    /\ now = HM(12, 0)
    /\ hourCycle = "h23"
    /\ config \in GateConfigs
    /\ gateMsg = <<>>
    /\ lastProc = <<>>
    /\ QuietIdle /\ StreamInit /\ HistoryInit /\ SSEIdle /\ ApiIdle
    /\ ConsumeInit

NextConsume ==
    \/ Deliver
    \/ \E h \in handling, cacheOk \in BOOLEAN, handlerThrows \in BOOLEAN :
           HandlerReturns(h, cacheOk, handlerThrows)
    \/ ChannelCloses
    \/ Resubscribe

SpecConsume == InitConsume /\ [][NextConsume]_vars

\* The consume loop on one queued notification that the gates may suppress:
\* the user's stored preferences disable the channel, or hold a quiet-hours
\* window around the current time, or are absent (marketing is off by
\* default).
SuppressNotifications ==
    {[userId |-> "u1", type |-> "email", category |-> c] :
        c \in {"updates", "marketing", "security"}}

SuppressCaches ==
    {EmptyCache,
     [u \in {"u1"} |-> [DEFAULT_PREFERENCES EXCEPT !.channels.email = FALSE]],
     [u \in {"u1"} |->
         [DEFAULT_PREFERENCES EXCEPT
             !.quietHours = [enabled |-> TRUE, start |-> HM(9, 0), end |-> HM(17, 0),
                             timezone |-> "UTC"]]]}

InitSuppress ==
    /\ prefsCache \in SuppressCaches
    /\ now = HM(12, 0)
    /\ hourCycle = "h23"
    /\ config \in GateConfigs
    /\ gateMsg = <<>>
    /\ lastProc = <<>>
    /\ QuietIdle /\ StreamInit /\ HistoryInit /\ SSEIdle /\ ApiIdle
    /\ msgBody \in {b \in [Msgs -> {Payload(n) : n \in SuppressNotifications}] :
                        b["m2"].notification.category = "updates"}
    /\ consumerOnError = "throws"
    /\ queue = <<"m1">>
    /\ unacked = {}
    /\ handling = {}
    /\ chanGen = 1
    /\ chanOpen = TRUE
    /\ dlq = {}
    /\ ledger = [m \in Msgs |-> NoLedger]
    /\ lastRun = <<>>

SpecSuppress == InitSuppress /\ [][NextConsume]_vars

\* Boot, then callers that set up the topology, publish and subscribe.
InitTopology ==
    /\ GateIdle /\ QuietIdle /\ StreamInit /\ HistoryInit /\ SSEIdle /\ ConsumeIdle
    /\ TopoInit
    /\ SendIdle
    /\ PrefIdle
    /\ MqIdle
    /\ RaceIdle
    /\ LateIdle

NextTopology ==
    \/ Register
    \/ \E p \in Requesters, op \in Ops : Call(p, op)
    \/ \E p \in Procs : SetupConnect(p)
    \/ \E p \in Procs : ConnectBegins(p)
    \/ \E p \in Procs, ok \in BOOLEAN : ConnectEnds(p, ok)
    \/ \E p \in Procs : ChannelUnavailable(p)
    \/ \E p \in Procs, ok \in BOOLEAN : SetupStep(p, ok)
    \/ \E p \in Procs, outcome \in {"accepted", "full", "error"} : Publish(p, outcome)
    \/ \E p \in Procs, ok \in BOOLEAN : Subscribe(p, ok)
    \/ ConnectionLost

SpecTopology == InitTopology /\ [][NextTopology]_vars

\* One request to POST /api/notifications/send on a server that booted.
InitSend ==
    /\ GateIdle /\ QuietIdle /\ StreamInit /\ HistoryInit /\ SSEIdle /\ ConsumeIdle
    /\ SendInit
    /\ PrefIdle
    /\ MqIdle
    /\ RaceIdle
    /\ LateIdle

NextSend == \E outcome \in {"accepted", "full", "error"} : SendPOST(outcome)

SpecSend == InitSend /\ [][NextSend]_vars

\* The preference store, with one user's preferences stored.
InitPrefs ==
    /\ now = HM(12, 0)
    /\ hourCycle = "h23"
    /\ config = [handlers |-> {}]
    /\ gateMsg = <<>>
    /\ lastProc = <<>>
    /\ QuietIdle /\ StreamInit /\ HistoryInit /\ SSEIdle /\ ConsumeIdle
    /\ TopoIdle /\ SendIdle /\ MqIdle /\ RaceIdle /\ LateIdle
    /\ PrefInit

NextPrefs ==
    \/ \E u \in Users, cacheOk \in BOOLEAN : PrefGet(u, cacheOk)
    \/ \E u \in PrefWriters, update \in PrefUpdates, viaRoute \in BOOLEAN,
          readOk \in BOOLEAN, writeOk \in BOOLEAN :
           PrefSet(u, update, viaRoute, readOk, writeOk)
    \/ \E u \in Users, delOk \in BOOLEAN : PrefDelete(u, delOk)
    \/ \E u \in Users : PrefExpires(u)

SpecPrefs == InitPrefs /\ [][NextPrefs]_vars

\* Preferences and the consumer together: u1 updates preferences, the key
\* expires, and notifications for u1 arrive and are processed.
OptOutNotifications ==
    {[userId |-> "u1", type |-> t, category |-> "updates"] : t \in {"email", "push"}}

\* The consumer callback parsed the next message (consumer.ts 225).
MessageArrives(notification) ==
    /\ gateMsg = <<>>
    /\ gateMsg' = <<notification>>
    /\ UNCHANGED <<prefsCache, now, hourCycle, config, lastProc>>
    /\ UNCHANGED gateOthers

NextOptOut ==
    \/ \E update \in PrefUpdates, viaRoute \in BOOLEAN, readOk \in BOOLEAN,
          writeOk \in BOOLEAN : PrefSet("u1", update, viaRoute, readOk, writeOk)
    \/ \E u \in Users : PrefExpires(u)
    \/ \E notification \in OptOutNotifications : MessageArrives(notification)
    \/ \E handlerThrows \in BOOLEAN, cacheOk \in BOOLEAN :
           ProcessNotification(handlerThrows, cacheOk)

SpecOptOut == InitPrefs /\ [][NextOptOut]_vars

\* The consume loop while user u1 holds a live connection in the
\* streamManager registry (registerClient was called once, for u1).
InitDeliver ==
    /\ prefsCache = EmptyCache
    /\ now = HM(12, 0)
    /\ hourCycle = "h23"
    /\ config \in GateConfigs
    /\ gateMsg = <<>>
    /\ lastProc = <<>>
    /\ QuietIdle /\ HistoryInit /\ SSEIdle /\ ApiIdle
    /\ ConsumeInit
    /\ clients = MapSet(NoRegistry, "u1", 1)
    /\ routeClients = NoRegistry
    /\ sinkState = [s \in Sinks |-> IF s = 1 THEN "open" ELSE "unused"]
    /\ sinkFrames = [s \in Sinks |-> 0]
    /\ nextSink = 2
    /\ replaced = {}
    /\ lastSend = <<>>
    /\ connUser = [s \in Sinks |-> "none"]
    /\ connAborted = [s \in Sinks |-> FALSE]
    /\ reqAborted = [s \in Sinks |-> FALSE]
    /\ hbTimer = [s \in Sinks |-> FALSE]

SpecDeliver == InitDeliver /\ [][NextConsume]_vars

\* The broker connection manager, with timers that fire and connection
\* attempts that settle.
InitBroker ==
    /\ GateIdle /\ QuietIdle /\ StreamInit /\ HistoryInit /\ SSEIdle /\ ConsumeIdle
    /\ TopoIdle /\ SendIdle /\ PrefIdle /\ RaceIdle /\ LateIdle
    /\ MqInit

NextBroker ==
    \/ MqTimerFires
    \/ MqGetChannel
    \/ MqAmqpConnectSettles
    \/ MqCreateChannelSettles
    \/ \E withError \in BOOLEAN : MqConnectionEvent(withError)
    \/ BrokerChanges

SpecBroker ==
    /\ InitBroker
    /\ [][NextBroker]_vars
    /\ WF_vars(MqTimerFires)
    /\ WF_vars(MqAmqpConnectSettles)
    /\ WF_vars(MqCreateChannelSettles)

\* Two markNotificationAsRead calls for user u1, each made once, on a list
\* of two stored notifications (one of them possibly read already), with
\* no other operation on the list.
RaceLists ==
    {<<Item(2, <<>>), Item(1, <<>>)>>,
     <<Item(2, <<>>), Item(1, <<0>>)>>}

InitMarkRace ==
    /\ GateIdle /\ QuietIdle /\ StreamInit /\ SSEIdle /\ ConsumeIdle
    /\ ApiIdle
    /\ history \in {[u \in Users |-> IF u = "u1" THEN l ELSE <<>>] : l \in RaceLists}
    /\ appended = [u \in Users |-> IF u = "u1" THEN 2 ELSE 0]
    /\ sinceExpiry = [u \in Users |-> IF u = "u1" THEN 2 ELSE 0]
    /\ clock = 0
    /\ markLog = <<>>

NextMarkRace ==
    \/ \E c \in Callers, id \in RaceIds : MarkReads(c, id)
    \/ \E c \in Callers : MarkWrites(c)
    \/ Tick

SpecMarkRace == InitMarkRace /\ [][NextMarkRace]_vars

\* markNotificationAsRead calls interleaved with storeNotification for the
\* same user: the consumer stores new notifications (ids 3, 4, ...) while
\* a call is between its lrange and its lset.
MaxRaceStores == 2

StoreDuringMark ==
    /\ appended["u1"] < 2 + MaxRaceStores
    /\ StoreNotification("u1", appended["u1"] + 1)

NextStoreRace ==
    \/ \E c \in Callers, id \in RaceIds : MarkReads(c, id)
    \/ \E c \in Callers : MarkWrites(c)
    \/ StoreDuringMark
    \/ Tick

SpecStoreRace == InitMarkRace /\ [][NextStoreRace]_vars

\* deleteNotification on drawn lists.
InitDelete ==
    /\ GateIdle /\ QuietIdle /\ StreamInit /\ SSEIdle /\ ConsumeIdle
    /\ ApiIdle
    /\ history \in {[u \in Users |-> IF u = "u1" THEN l ELSE <<>>] : l \in DeleteLists}
    /\ appended = [u \in Users |-> Len(history[u])]
    /\ sinceExpiry = [u \in Users |-> Len(history[u])]
    /\ clock = 0
    /\ markLog = <<>>

NextDelete == \E id \in 1..3, redisOk \in BOOLEAN : DeleteCall(id, redisOk)

SpecDelete == InitDelete /\ [][NextDelete]_vars

\* The publisher's routing: publishNotification calls of every type, with
\* the setup they run first, and the consumer emptying the main queue.
EarlyIdle ==
    /\ GateIdle /\ QuietIdle /\ StreamInit /\ HistoryInit /\ SSEIdle /\ ConsumeIdle
    /\ TopoIdle /\ SendIdle /\ PrefIdle /\ MqIdle /\ RaceIdle

InitRouting == EarlyIdle /\ LateIdle

NextRouting ==
    \/ \E type \in PublishTypes, failAt \in 0..Len(RoutingSetup), accepted \in BOOLEAN :
           PublishNotification(type, failAt, accepted)
    \/ RoutingConsume

SpecRouting == InitRouting /\ [][NextRouting]_vars

\* Starting and stopping the consumer: startConsumer calls, stopConsumer
\* calls with and without a tag, and the cancel they await.
InitTags == EarlyIdle /\ LateIdle

NextTags ==
    \/ \E ok \in BOOLEAN : StartConsumer(ok)
    \/ \E consumerTag \in 0..MaxTags : StopConsumerBegins(consumerTag)
    \/ \E ok \in BOOLEAN : StopConsumerSettles(ok)

SpecTags == InitTags /\ [][NextTags]_vars

\* The browser: notifications added to the store and to the hook's state.
InitClient == EarlyIdle /\ LateIdle

NextClient ==
    \/ \E notification \in ClientNotifications : StoreAddNotification(notification)
    \/ \E notification \in ClientNotifications : HookAddNotification(notification)

SpecClient == InitClient /\ [][NextClient]_vars

(***************************************************************************)
(* Claims: consumer gates                                                  *)
(***************************************************************************)
Processed == lastProc # <<>>

Proc == lastProc[1]

\* The channel the claim maps the notification's type to is switched off in
\* the preferences the call was given.
MappedChannelDisabled(r) ==
    \/ r.notification.type = "email" /\ ~r.preferences.channels.email
    \/ r.notification.type = "push" /\ ~r.preferences.channels.push
    \/ r.notification.type = "in-app" /\ ~r.preferences.channels.inApp

MappedChannelEnabled(r) ==
    \/ r.notification.type = "email" /\ r.preferences.channels.email
    \/ r.notification.type = "push" /\ r.preferences.channels.push
    \/ r.notification.type = "in-app" /\ r.preferences.channels.inApp

CategoryOn(r) == r.preferences.categories[r.notification.category]

\* Minute-of-day interval arithmetic on a quietHours record at time hm.
InWindow(q, hm) ==
    LET s == q.start[1] * 60 + q.start[2]
        e == q.end[1] * 60 + q.end[2]
        n == hm[1] * 60 + hm[2]
    IN  IF s > e THEN n >= s \/ n < e ELSE s <= n /\ n < e

QuietNow(p) ==
    /\ "quietHours" \in DOMAIN p
    /\ p.quietHours.enabled
    /\ InWindow(p.quietHours, now)

\* C1: a notification whose mapped channel is disabled in the preferences
\* returned for its user never reaches a delivery handler, neither an override
\* nor the default one.
C1_ChannelDisabledNeverDelivered ==
    (Processed /\ MappedChannelDisabled(Proc)) => Proc.invoked = "none"

\* A push notification for a user whose stored preferences switch push off,
\* with the category on and outside quiet hours: only the channel gate stops it.
C1_Witness ==
    /\ Processed
    /\ Proc.notification.type = "push"
    /\ Proc.notification.userId \in DOMAIN prefsCache
    /\ ~Proc.preferences.channels.push
    /\ Proc.preferences.channels.inApp
    /\ CategoryOn(Proc)
    /\ ~QuietNow(Proc.preferences)
    /\ Proc.outcome = "channel"

\* C2: a notification whose category is disabled never reaches a delivery
\* handler, whatever the channel flags and the quiet hours are.
C2_CategoryDisabledNeverDelivered ==
    (Processed /\ ~CategoryOn(Proc)) => Proc.invoked = "none"

\* The channel is on and quiet hours do not apply: only the category gate
\* stops the notification.
C2_Witness ==
    /\ Processed
    /\ MappedChannelEnabled(Proc)
    /\ ~CategoryOn(Proc)
    /\ ~QuietNow(Proc.preferences)
    /\ Proc.outcome = "category"

\* C3: a security notification whose channel and category are enabled is
\* handed to its handler for every quietHours value and every current time.
C3_SecurityBypassesQuietHours ==
    (/\ Processed
     /\ Proc.notification.category = "security"
     /\ MappedChannelEnabled(Proc)
     /\ CategoryOn(Proc))
    => Proc.invoked # "none"

\* A security notification processed inside an enabled quiet-hours window.
C3_Witness ==
    /\ Processed
    /\ Proc.notification.category = "security"
    /\ QuietNow(Proc.preferences)
    /\ Proc.invoked = "default"
    /\ Proc.outcome = "delivered"

(***************************************************************************)
(* Claims: quiet hours                                                     *)
(***************************************************************************)
\* C4: with quiet hours enabled, isInQuietHours equals interval arithmetic on
\* the minutes of the day (now >= start or now < end when start > end, else
\* start <= now < end); with quiet hours disabled or absent it is false.
C4_QuietHoursIsIntervalArithmetic ==
    (quietOut # <<>>) =>
        IF "quietHours" \notin DOMAIN quietIn THEN quietOut[1] = FALSE
        ELSE IF ~quietIn.quietHours.enabled THEN quietOut[1] = FALSE
        ELSE quietIn.quietHours.timezone \in ValidTimeZones
             => quietOut[1] = InWindow(quietIn.quietHours, now)

(***************************************************************************)
(* Claims: live stream registry                                            *)
(***************************************************************************)
Registered(sink) ==
    \/ sink \in {clients[u] : u \in DOMAIN clients}
    \/ sink \in {routeClients[u] : u \in DOMAIN routeClients}

\* C5: registering a second connection for a userId closes the first
\* connection's sink as part of installing the second, later sends for that
\* user go to the second sink, and no replaced sink is left open and
\* unreferenced.
C5_ReplacedSinkIsClosed ==
    /\ \A s \in replaced : sinkState[s] = "closed"
    /\ \A s \in Sinks : (sinkState[s] = "open") => Registered(s)
    /\ (lastSend # <<>> /\ lastSend[1].ok) => ~lastSend[1].stale

(***************************************************************************)
(* Claims: history store                                                   *)
(***************************************************************************)
\* The ids appended for a user are 1, 2, ... in order, so the k most recent
\* of n appends, newest first, are n, n - 1, ..., n - k + 1.
MostRecent(n, k) == [i \in 1..k |-> n - i + 1]

StoredIds(userId) == [i \in 1..Len(history[userId]) |-> history[userId][i].id]

C7_MarkReadIdempotent ==
    /\ (/\ Len(markLog) = 2
        /\ markLog[1].userId = markLog[2].userId
        /\ markLog[1].id = markLog[2].id)
           => markLog[2].after = markLog[1].after
    /\ \A u \in Users : getUnreadCount(history[u]) >= 0

(***************************************************************************)
(* Claims: reconnecting subscriber                                         *)
(***************************************************************************)
\* C8: once the hook has settled after an event, the reconnect counter is
\* zero after a "connected" event; after the k-th consecutive transport
\* error, k <= maxReconnectAttempts, the counter is k and k reconnects
\* have been scheduled; after the next transport error the status is
\* "disconnected" and no further reconnect was scheduled.
C8_ReconnectCounter ==
    ~RenderPending(sse) =>
        /\ (sse.last = "connected") => sse.reconnectAttempts = 0
        /\ (sse.last = "error" /\ sse.errors <= maxReconnectAttempts) =>
               /\ sse.reconnectAttempts = sse.errors
               /\ sse.scheduled = sse.errors
        /\ (sse.last = "error" /\ sse.errors = maxReconnectAttempts + 1) =>
               /\ sse.status = "disconnected"
               /\ sse.scheduled = maxReconnectAttempts

(***************************************************************************)
(* Claims: consume loop                                                    *)
(***************************************************************************)
\* A delivered, unsettled message has its callback still in progress.
UnackedIsBeingHandled ==
    \A m \in unacked : [msg |-> m, chan |-> chanGen] \in handling

\* C9 (as stated): every callback that has returned settled its message
\* exactly once, with an ack when it did not throw and a nack with requeue
\* when it threw; never both, never neither.
C9_SettledExactlyOnce ==
    /\ \A m \in Msgs :
           /\ ledger[m].acks = ledger[m].ok
           /\ ledger[m].nacks = ledger[m].failed
    /\ lastRun # <<>> => Len(lastRun[1].sent) = 1
    /\ UnackedIsBeingHandled

\* C9 (amended): every callback that returns while the channel its message
\* was delivered on is still open settles the message exactly once, with
\* an ack when it did not throw and a nack with requeue when it threw;
\* a callback that returns after that channel has closed sends nothing,
\* and the broker has put the message back in the queue.  Every delivery
\* is acked, nacked, returned by a channel close, or still being handled.
C9_SettledOnceOnOpenChannel ==
    /\ \A m \in Msgs :
           /\ ledger[m].acks = ledger[m].ok - ledger[m].lostOk
           /\ ledger[m].nacks = ledger[m].failed - ledger[m].lostFailed
           /\ ledger[m].deliveries =
                  ledger[m].acks + ledger[m].nacks + ledger[m].closed
                  + (IF m \in unacked THEN 1 ELSE 0)
    /\ lastRun # <<>> =>
           lastRun[1].sent = IF ~lastRun[1].open THEN <<>>
                             ELSE IF lastRun[1].threw THEN <<"nack">>
                             ELSE <<"ack">>
    /\ UnackedIsBeingHandled
    /\ dlq = {}

C9_Witness ==
    /\ ledger["m1"].acks = 1
    /\ ledger["m2"].nacks >= 1
    /\ lastRun # <<>>
    /\ ~lastRun[1].open

Queued(m) == \E i \in 1..Len(queue) : queue[i] = m

SuppressedRunIsQuiet ==
    lastRun # <<>> /\ lastRun[1].outcome \in Suppressed =>
        /\ ~lastRun[1].threw
        /\ ~lastRun[1].onError
        /\ lastRun[1].sent # <<"nack">>
        /\ dlq = {}
        /\ \A u \in DOMAIN history : history[u] = <<>>

Gone(m) == ~Queued(m) /\ m \notin unacked /\ m \notin dlq

\* C11 as stated: a notification suppressed by a gate (channel disabled,
\* category disabled, quiet hours for a non-security category) is acked and
\* gone: not queued again, not awaiting settlement, not dead-lettered, not
\* stored, and the error callback is not invoked.
C11_SuppressedIsAcked ==
    /\ SuppressedRunIsQuiet
    /\ \A m \in Msgs :
           ledger[m].suppressed >= 1 => ledger[m].acks >= 1 /\ Gone(m)

\* C11 amended: the same, for a suppressed notification whose callback
\* returns while the channel it was delivered on is still open; one whose
\* channel closed first is put back by the broker and delivered again.
C11_SuppressedIsAckedOnOpenChannel ==
    /\ SuppressedRunIsQuiet
    /\ lastRun # <<>> /\ lastRun[1].outcome \in Suppressed /\ lastRun[1].open =>
           lastRun[1].sent = <<"ack">>
    /\ \A m \in Msgs :
           ledger[m].suppressedOpen >= 1 => ledger[m].acks >= 1 /\ Gone(m)

\* The quiet-hours gate has suppressed a notification whose callback
\* returned on an open channel, and the message is acked and gone.
C11_Witness ==
    /\ lastRun # <<>>
    /\ lastRun[1].outcome = "quiet"
    /\ lastRun[1].open
    /\ ledger[lastRun[1].msg].acks = 1
    /\ Gone(lastRun[1].msg)

(***************************************************************************)
(* Claims: topology setup, publisher, boot                                 *)
(***************************************************************************)
\* C12: once setupNotificationInfrastructure has completed, the readiness
\* flag stays true, and every call of it made after that returns at once
\* without issuing a broker operation (no connect, assertExchange,
\* assertQueue or bindQueue).
C12_SetupIdempotent ==
    [][/\ isSetupComplete => isSetupComplete'
       /\ \A p \in Procs :
              proc'[p].startedReady =>
                  /\ ~proc'[p].issued
                  /\ proc'[p].setupResult = "returned"
                  /\ proc'[p].pc # "setup"
                  /\ proc[p].pc = "idle" => topology' = topology]_vars

\* A direct call of setupNotificationInfrastructure made after the flag was
\* set has returned.
C12_Witness ==
    \E p \in Requesters :
        /\ proc[p].op = "setup"
        /\ proc[p].startedReady
        /\ proc[p].result = "ok"

\* C13: the step in which setup throws fails the calling operation and
\* leaves the flag as it was; a call that finds the flag unset starts again
\* from connect with nothing issued, and the call that sets the flag has
\* gone through every step; the flag is true only when both exchanges,
\* both queues and all four bindings exist.
C13_FailedSetupLeavesFlagUnset ==
    [][/\ \A p \in Procs :
              proc'[p].setupResult = "threw" /\ proc[p].setupResult # "threw" =>
                  /\ isSetupComplete' = isSetupComplete
                  /\ proc'[p].result \in {"failed", "caught"}
       /\ \A p \in Procs :
              proc'[p].setupResult = "running" /\ proc[p].setupResult # "running" =>
                  proc'[p].step = 0 /\ ~proc'[p].issued
       /\ ~isSetupComplete /\ isSetupComplete' =>
              \E p \in Procs :
                  /\ proc[p].setupResult = "running"
                  /\ proc'[p].setupResult = "returned"
                  /\ proc'[p].step = Len(SetupSteps)
       /\ isSetupComplete' => topology' = AllTopology]_vars

\* Setup threw at boot with the flag left unset, and a later call ran the
\* whole provisioning and set it.
C13_Witness ==
    /\ proc["boot"].setupResult = "threw"
    /\ isSetupComplete
    /\ topology = AllTopology
    /\ \E p \in Requesters :
           /\ proc[p].setupResult = "returned"
           /\ ~proc[p].startedReady
           /\ proc[p].step = Len(SetupSteps)

\* C14: a message is handed to the broker, and a subscription is opened,
\* only after setup has succeeded in this process; an operation inside
\* which setup threw has failed without publishing or subscribing.
C14_SetupPrecedesTraffic ==
    /\ handed # {} \/ subscriptions > 0 => isSetupComplete
    /\ \A p \in Procs :
           proc[p].sent > 0 => isSetupComplete
    /\ \A p \in Procs :
           proc[p].setupResult = "threw" =>
               proc[p].result \in {"failed", "caught"} /\ proc[p].sent = 0

\* publishNotification ran setup itself and then published, startConsumer
\* ran setup itself and then subscribed, and a third operation failed in
\* its setup.
C14_Witness ==
    /\ \E p \in Requesters :
           /\ proc[p].op = "publish"
           /\ proc[p].setupResult = "returned"
           /\ ~proc[p].startedReady
           /\ proc[p].sent = 1
    /\ proc["boot"].setupResult = "threw"
    /\ proc["boot"].sent = 0

\* C15: the server accepts traffic only with the readiness flag set: a
\* setup failure at boot stops the process.
C15_BootFailureIsFatal == phase = "serving" => isSetupComplete

\* C16: publishNotifications attempts its inputs one at a time in input
\* order; every attempt before the last one succeeded; a failed attempt is
\* the last one and fails the call; the call succeeds only when every input
\* was published; and the items published before a failure stay with the
\* broker.
C16_BatchStopsAtFirstFailure ==
    \A p \in Procs :
        proc[p].op = "batch" =>
            LET log == proc[p].log
            IN  /\ Len(log) <= BatchLen
                /\ \A i \in 1..Len(log) : log[i].item = i
                /\ \A i \in 1..Len(log) : i < Len(log) => log[i].ok
                /\ \A i \in 1..Len(log) :
                       ~log[i].ok => proc[p].result = "failed" /\ proc[p].pc = "idle"
                /\ proc[p].result = "ok" =>
                       Len(log) = BatchLen /\ \A i \in 1..Len(log) : log[i].ok
                /\ \A i \in 1..Len(log) :
                       log[i].ok => [call |-> proc[p].call, item |-> i] \in handed

\* A batch failed at its second input: the first stays published and the
\* call has failed.
C16_Witness ==
    \E p \in Requesters :
        /\ proc[p].op = "batch"
        /\ proc[p].result = "failed"
        /\ Len(proc[p].log) = 2
        /\ proc[p].log[1].ok
        /\ ~proc[p].log[2].ok
        /\ [call |-> proc[p].call, item |-> 1] \in handed

(***************************************************************************)
(* Claims: the send route                                                  *)
(***************************************************************************)
\* What the claim calls a well-formed publish request: userId, title and
\* body are non-empty strings, type and category are in the allowed sets.
WellFormedSend(b) ==
    /\ b.kind = "object"
    /\ \A f \in {b.userId, b.title, b.body} : f.t = "string" /\ f.v # ""
    /\ b.type.t = "string" /\ b.type.v \in NotificationTypes
    /\ b.category.t = "string" /\ b.category.v \in Categories

Responded == sendResponse # <<>>

\* C17: a request that is not well-formed is answered with a validation
\* error (status 400) and no message reaches the broker.
C17_InvalidRequestRejected ==
    Responded /\ ~WellFormedSend(sendBody) =>
        sendResponse[1].status = 400 /\ handed = {}

\* The part of C17 the handler keeps for every body: no message of a
\* request that is not well-formed reaches the broker, and a JSON object
\* that is not well-formed gets status 400.
C17_InvalidNeverPublished ==
    Responded /\ ~WellFormedSend(sendBody) =>
        /\ handed = {}
        /\ sendResponse[1].status \in {400, 500}
        /\ sendBody.kind = "object" => sendResponse[1].status = 400

(***************************************************************************)
(* Claims: the preference store                                            *)
(***************************************************************************)
LastPref(op) == prefLast # <<>> /\ prefLast[1].op = op

FieldOf(r, k) == IF k \in DOMAIN r THEN <<r[k]>> ELSE <<>>

\* C19: in the record a set has stored, each channel and category key
\* named in the update has the new value and every other one its previous
\* value; quietHours and frequency are the update's when it provides them,
\* and otherwise what was stored before (the defaults when nothing was).
C19_SetMergesPartialUpdate ==
    LastPref("set") /\ ~prefLast[1].threw /\ prefLast[1].readOk =>
        LET u == prefLast[1].update
            old == prefLast[1].previous
            new == prefLast[1].result
        IN  /\ \A m \in {"channels", "categories"} :
                   /\ m \in DOMAIN new
                   /\ DOMAIN new[m] = DOMAIN old[m]
                   /\ \A k \in DOMAIN old[m] :
                          new[m][k] = IF m \in DOMAIN u /\ k \in DOMAIN u[m]
                                      THEN u[m][k] ELSE old[m][k]
            /\ \A f \in {"quietHours", "frequency"} :
                   FieldOf(new, f) = IF f \in DOMAIN u THEN <<u[f]>> ELSE FieldOf(old, f)

\* How a read after a delete must end: with the defaults.
ReadsDefaults == prefLast[1].result = DEFAULT_PREFERENCES

SendStep(userId) == lastSend' # lastSend /\ lastSend'[1].userId = userId

\* C21: a send to a user with no registered connection returns false and
\* leaves the registry and every sink as they were; nothing is queued: a
\* sink's frames grow only by one, in a successful send that finds that sink
\* registered, so a connection registered later starts with no frame.
C21_SendWithoutClientIsDropped ==
    [][ /\ \A u \in Users :
              (SendStep(u) /\ u \notin DOMAIN clients) =>
                  /\ ~lastSend'[1].ok
                  /\ clients' = clients
                  /\ sinkState' = sinkState
                  /\ sinkFrames' = sinkFrames
        /\ \A s \in Sinks :
              (sinkFrames'[s] # sinkFrames[s]) =>
                  /\ sinkFrames'[s] = sinkFrames[s] + 1
                  /\ lastSend'[1].ok /\ lastSend'[1].sink = s
                  /\ lastSend'[1].userId \in DOMAIN clients
                  /\ clients[lastSend'[1].userId] = s
        /\ \A s \in Sinks :
              (sinkState[s] = "unused" /\ sinkState'[s] = "open") => sinkFrames'[s] = 0
      ]_vars

\* A send found no connection for a user who registered afterwards, and the
\* new connection has received nothing.
C21_Witness ==
    /\ lastSend # <<>>
    /\ lastSend[1].sink = 0 /\ ~lastSend[1].ok
    /\ lastSend[1].userId \in DOMAIN clients
    /\ sinkFrames[clients[lastSend[1].userId]] = 0

\* streamManager.ts isUserConnected, before and after a step.
isUserConnected(userId) == userId \in DOMAIN clients

isUserConnectedNext(userId) == userId \in DOMAIN clients'

\* C22: a send whose write to the user's sink fails returns false (nothing
\* is thrown), closes that user's sink and deletes the user's entry, so that
\* isUserConnected is false afterwards; every other user's entry and every
\* other sink stay as they were.
C22_FailedWriteRemovesOnlyThatClient ==
    [][ \A u \in Users :
          (SendStep(u) /\ isUserConnected(u) /\ sinkState[clients[u]] # "open") =>
              /\ lastSend'[1] = [userId |-> u, sink |-> clients[u], ok |-> FALSE,
                                 stale |-> clients[u] \in replaced]
              /\ sinkState'[clients[u]] = "closed"
              /\ ~isUserConnectedNext(u)
              /\ \A v \in Users \ {u} :
                     /\ isUserConnectedNext(v) = isUserConnected(v)
                     /\ isUserConnected(v) => clients'[v] = clients[v]
              /\ \A s \in Sinks \ {clients[u]} : sinkState'[s] = sinkState[s]
              /\ sinkFrames' = sinkFrames
      ]_vars

\* A send failed on a closed sink and removed the user, while another user
\* is still connected on an open sink.
C22_Witness ==
    /\ lastSend # <<>>
    /\ lastSend[1].sink # 0 /\ ~lastSend[1].ok
    /\ ~isUserConnected(lastSend[1].userId)
    /\ sinkState[lastSend[1].sink] = "closed"
    /\ \E v \in Users \ {lastSend[1].userId} :
           isUserConnected(v) /\ sinkState[clients[v]] = "open"

(***************************************************************************)
(* Claims: the SSE route's heartbeat                                       *)
(***************************************************************************)
\* The connection that owns the sink is gone: its entry was removed or
\* replaced in the route's registry, or its cancellation signal is raised.
ConnectionGone(sink) ==
    /\ connUser[sink] # "none"
    /\ \/ connAborted[sink]
       \/ connUser[sink] \notin DOMAIN routeClients
       \/ routeClients[connUser[sink]] # sink

\* The heartbeat loop of a gone connection writes no frame to its sink and,
\* once stopped, sets no further timer.
C23_GoneLoopIsSilent ==
    [][ \A s \in Sinks :
          ConnectionGone(s) =>
              /\ sinkFrames'[s] = sinkFrames[s]
              /\ ~hbTimer[s] => ~hbTimer'[s]
      ]_vars

\* C23: the heartbeat loop of a connection that is gone, or whose signal is
\* raised, stops at its next tick: it writes no heartbeat, sets no further
\* timer and changes no registry entry.
C23_HeartbeatStopsWhenGone ==
    [][ \A s \in Sinks :
          ConnectionGone(s) =>
              /\ sinkFrames'[s] = sinkFrames[s]
              /\ ~hbTimer[s] => ~hbTimer'[s]
              /\ (hbTimer[s] /\ ~hbTimer'[s]) =>
                     /\ routeClients' = routeClients
                     /\ sinkState' = sinkState
      ]_vars

(***************************************************************************)
(* Claims: the subscriber's disconnect                                     *)
(***************************************************************************)
\* No EventSource is connecting or open: every transport is closed.
TransportClosed(s) ==
    /\ s.source = 0
    /\ \A i \in Sources : s.readyState[i] \notin {"connecting", "open"}

\* disconnect(), called in any reachable state of the hook, closes the
\* transport, clears the timer held in reconnectTimeoutRef, resets the
\* counter and sets the status.
C24_DisconnectResetsTracked ==
    Mounted(sse) =>
        LET after == disconnect(sse)
        IN  /\ TransportClosed(after)
            /\ after.timeoutRef = 0
            /\ sse.timeoutRef # 0 => ~after.timers[sse.timeoutRef]
            /\ after.reconnectAttempts = 0
            /\ after.status = "disconnected"

\* C24: disconnect(), called in any reachable state of the hook (connecting,
\* connected, error with a timer pending, disconnected), leaves no reconnect
\* timer pending and no transport open, the counter at zero and the status
\* "disconnected".
C24_DisconnectCancelsEverything ==
    Mounted(sse) =>
        LET after == disconnect(sse)
        IN  /\ TransportClosed(after)
            /\ \A i \in Sources : ~after.timers[i]
            /\ after.reconnectAttempts = 0
            /\ after.status = "disconnected"

(***************************************************************************)
(* Claims: the broker connection manager                                   *)
(***************************************************************************)
\* The step is the established connection's error or close.
ConnectionLostStep == rabbit.connection /\ rabbit.channel /\ ~rabbit'.connection

\* The step is a connect() that succeeded.
ConnectSucceededStep == ~rabbit.channel /\ rabbit'.channel

\* C25: on connection error or close the manager drops both handles and
\* sets a reconnect timer; retryCount never exceeds maxRetries, a successful
\* connect resets it to zero, at maxRetries no step sets a further timer,
\* and when the broker stays unreachable the timers eventually run out.
C25_ReconnectIsBounded ==
    /\ [](rabbit.retryCount <= maxRetries)
    /\ [][ConnectionLostStep =>
             /\ ~rabbit'.connection /\ ~rabbit'.channel
             /\ rabbit'.timers > rabbit.timers]_vars
    /\ [][ConnectSucceededStep => rabbit'.retryCount = 0]_vars
    /\ [][rabbit.retryCount = maxRetries => rabbit'.timers <= rabbit.timers]_vars
    /\ (<>[](~brokerUp)) => <>[](rabbit.timers = 0)

\* The retries are used up against an unreachable broker: no timer is
\* pending, no connect is in progress and no handle is held.
C25_Witness ==
    /\ ~brokerUp
    /\ rabbit.retryCount = maxRetries
    /\ rabbit.timers = 0
    /\ rabbit.pc = "idle"
    /\ ~rabbit.connection /\ ~rabbit.channel

(***************************************************************************)
(* Claims: what the consumer does with a delivered notification            *)
(***************************************************************************)
\* The user of the notification the last callback worked on.
LastRunUser == msgBody[lastRun[1].msg].notification.userId

\* C26: a notification that passed the three gates and whose handler
\* succeeded has been pushed to the user's live connection, when one is
\* registered, and appended to the user's history list; a suppressed one
\* is neither pushed nor stored.
C26_HandledIsPushedAndStored ==
    lastRun # <<>> =>
        /\ (lastRun[1].outcome = "delivered") =>
               /\ history[LastRunUser] # <<>>
               /\ isUserConnected(LastRunUser) =>
                      sinkFrames[clients[LastRunUser]] > 0
        /\ (lastRun[1].outcome \in Suppressed) =>
               /\ history[LastRunUser] = <<>>
               /\ \A s \in Sinks : sinkFrames[s] = 0

(***************************************************************************)
(* Claims: concurrent markNotificationAsRead calls                         *)
(***************************************************************************)
\* The calls that returned true.
MarkedBy == {c \in Callers : markCalls[c].pc = "done" /\ markCalls[c].ok}

\* The stored entry a call stamped.
StoredEntry(c) == history["u1"][FirstIndexOf(history["u1"], markCalls[c].id)]

\* A call reported a readAt as set and the stored entry does not carry it.
StampLost == \E c \in MarkedBy : StoredEntry(c).readAt # <<markCalls[c].readAt>>

\* An entry reported as read is stored without a readAt, or with one that
\* no call stamped on it.
MarkLost ==
    \E c \in MarkedBy :
        \/ FirstIndexOf(history["u1"], markCalls[c].id) = 0
        \/ StoredEntry(c).readAt = <<>>
        \/ \A d \in MarkedBy :
               markCalls[d].id = markCalls[c].id =>
                   StoredEntry(c).readAt # <<markCalls[d].readAt>>

\* Both calls have returned true after racing: each read the list before
\* the other wrote.
RaceDone == MarkedBy = Callers /\ \A c \in Callers : markCalls[c].raced

\* The two calls raced for the same notification and stamped different
\* instants.
SameEntryRace ==
    /\ RaceDone
    /\ markCalls["a"].id = markCalls["b"].id
    /\ markCalls["a"].readAt # markCalls["b"].readAt

\* C27: two markNotificationAsRead calls for the same user can race and
\* lose an update: when both read the list before either wrote and both
\* stamp the same entry, the stored list lacks the readAt one of them
\* reported as set (the later lset overwrites it).  Nothing else is lost:
\* a call returns true exactly when it found the id, every entry reported
\* as read keeps a readAt stamped by a call for it, and the entries no call
\* marked are as they were.
C27_RacingCallsLoseAStamp ==
    /\ SameEntryRace => StampLost
    /\ ~MarkLost
    /\ \A c \in Callers :
           markCalls[c].pc = "done" =>
               (markCalls[c].ok <=> markCalls[c].index # 0)
    /\ \A i \in 1..Len(history["u1"]) :
           (\A c \in MarkedBy : markCalls[c].id # history["u1"][i].id) =>
               \A c \in Callers :
                   markCalls[c].pc # "idle" => history["u1"][i] = markCalls[c].snapshot[i]

\* The two calls raced for one unread notification, both returned true,
\* and the stored entry lacks the readAt one of them set.
C27_Witness ==
    /\ SameEntryRace
    /\ \A c \in Callers : markCalls[c].snapshot[markCalls[c].index].readAt = <<>>
    /\ StampLost

(***************************************************************************)
(* Claims: stored notifications                                            *)
(***************************************************************************)
\* C28: a stored notification's readAt only goes from absent to present:
\* in no step does an entry that has a readAt, and is still stored after
\* the step, get another readAt or lose it; its id stays what it was.
C28_ReadAtIsSetOnce ==
    [][ \A u \in Users :
          \A i \in 1..Len(history[u]) :
              \A j \in 1..Len(history'[u]) :
                  (history'[u][j].id = history[u][i].id /\ history[u][i].readAt # <<>>) =>
                      history'[u][j].readAt = history[u][i].readAt
      ]_vars

(***************************************************************************)
(* Claims: failures in the consume callback                                *)
(***************************************************************************)
\* The last callback failed in the handler, or in parsing the message.
HandlerFailed ==
    /\ lastRun # <<>>
    /\ msgBody[lastRun[1].msg].parseable
    /\ msgBody[lastRun[1].msg].hasNotification
    /\ lastRun[1].threw

ParseFailed == lastRun # <<>> /\ ~msgBody[lastRun[1].msg].parseable

\* onError is called exactly when the handler failed and one was given,
\* never for a message that does not parse.
OnErrorAsClaimed ==
    /\ HandlerFailed => (lastRun[1].onError <=> consumerOnError # "absent")
    /\ ParseFailed => ~lastRun[1].onError

RemovedAt(before, after, i) ==
    /\ Len(after) = Len(before) - 1
    /\ \A k \in 1..(i - 1) : after[k] = before[k]
    /\ \A k \in i..Len(after) : after[k] = before[k + 1]

\* C30: deleteNotification removes exactly one entry, the first whose id
\* matches, and leaves the others in their order; it returns true exactly
\* when an entry was removed; for an id that is not in the list it returns
\* false and the list is unchanged.
C30_DeleteRemovesFirstMatch ==
    lastDelete # <<>> =>
        LET call == lastDelete[1]
            before == call.before
            after == history["u1"]
            matches == {i \in 1..Len(before) : before[i].id = call.id}
        IN  /\ call.ok <=> after # before
            /\ call.ok =>
                   \E i \in matches :
                       /\ \A j \in matches : i <= j
                       /\ RemovedAt(before, after, i)
            /\ (matches # {} /\ call.redisOk) => call.ok
            /\ matches = {} => (~call.ok /\ after = before)

\* The id was stored twice; the call removed the first of the two entries,
\* which differ, and returned true.
C30_Witness ==
    /\ lastDelete # <<>>
    /\ lastDelete[1].ok
    /\ \E i, j \in 1..Len(lastDelete[1].before) :
           /\ i < j
           /\ lastDelete[1].before[i].id = lastDelete[1].id
           /\ lastDelete[1].before[j].id = lastDelete[1].id
           /\ lastDelete[1].before[i] # lastDelete[1].before[j]
    /\ Len(history["u1"]) = Len(lastDelete[1].before) - 1

(***************************************************************************)
(* Claims: one transport per subscriber                                    *)
(***************************************************************************)
\* The EventSources that are connecting or open.
LiveSources(s) == {i \in Sources : s.readyState[i] \in {"connecting", "open"}}

\* C31: connect() returns without effect while an EventSource is connecting
\* or open, so at most one is live at any time, and it is the one held in
\* eventSourceRef; a step creates an EventSource only when none is live.
C31_AtMostOneTransport ==
    /\ [](Cardinality(LiveSources(sse)) <= 1)
    /\ [](LiveSources(sse) \subseteq {sse.source})
    /\ [][sse'.nextSource # sse.nextSource =>
             /\ sse'.nextSource = sse.nextSource + 1
             /\ LiveSources(sse') = {sse.nextSource}]_vars

\* A reconnect timer fired while an EventSource opened by a later connect()
\* was open, and that EventSource is still the only live one.
C31_Witness ==
    /\ sse.last = "timer"
    /\ \E i \in Sources : sse.readyState[i] = "open" /\ LiveSources(sse) = {i}

(***************************************************************************)
(* Claims: routing keys                                                    *)
(***************************************************************************)
\* The keys under which the main queue is bound to the notifications
\* exchange.
MainQueueKeys ==
    {b.key : b \in {b \in routing.bindings :
                       /\ b.queue = "notifications.queue"
                       /\ b.exchange = "notifications.exchange"}}

\* C32: the routing key of an accepted type is fixed by the type and is
\* one of the keys the main queue is bound under, so every message handed
\* to the exchange is copied to the main queue; for any other type
\* publishNotification throws and hands no message to the broker.
C32_AcceptedTypesReachMainQueue ==
    /\ routing.last # <<>> =>
           LET call == routing.last[1]
           IN  /\ call.type \in {"email", "push", "in-app"} =>
                      /\ call.key = <<<<"notification", call.type>>>>
                      /\ call.handed =>
                             /\ call.key[1] \in MainQueueKeys
                             /\ call.targets = {"notifications.queue"}
               /\ call.type \notin {"email", "push", "in-app"} =>
                      /\ call.threw
                      /\ ~call.handed
                      /\ call.targets = {}
    /\ \A i \in 1..Len(routing.main) : routing.main[i] \in {"email", "push", "in-app"}

\* An in-app notification was handed to the exchange and is in the main
\* queue.
C32_Witness ==
    /\ routing.last # <<>>
    /\ routing.last[1].type = "in-app"
    /\ routing.last[1].handed
    /\ routing.main # <<>>
    /\ routing.main[Len(routing.main)] = "in-app"

(***************************************************************************)
(* Claims: the tracked consumer                                            *)
(***************************************************************************)
\* A stopConsumer call returns after its cancel.
StopReturns ==
    /\ tags.stop.pc = "cancel"
    /\ tags'.stop.pc = "idle"
    /\ ~tags'.last[1].threw

\* C33: activeConsumerTag is null or the tag of the latest startConsumer.
\* A stopConsumer call that returns cancels exactly its tag: without an
\* argument the tag tracked at the call, and tracking is then cleared
\* (unless a startConsumer finished meanwhile); with a tag other than the
\* tracked one, tracking is unchanged; with nothing tracked and no argument
\* nothing is cancelled.  Every subscription other than the cancelled one,
\* in particular an earlier startConsumer's, stays active.
C33_OnlyLatestConsumerTracked ==
    /\ [](tags.activeConsumerTag \in {0, tags.nextTag - 1})
    /\ [][StopReturns =>
             /\ tags'.subscribed = tags.subscribed \ {tags.stop.tagToCancel}
             /\ tags.stop.arg = 0 =>
                    /\ tags.stop.tagToCancel = tags.stop.tracked
                    /\ ~tags.stop.raced => tags'.activeConsumerTag = 0
             /\ (tags.stop.arg # 0 /\ tags.stop.arg # tags.activeConsumerTag) =>
                    /\ tags.stop.tagToCancel = tags.stop.arg
                    /\ tags'.activeConsumerTag = tags.activeConsumerTag]_vars
    /\ [][(tags.stop.pc = "idle" /\ tags'.last # tags.last /\ tags'.last[1].op = "stop") =>
             /\ tags.activeConsumerTag = 0
             /\ tags'.last[1].arg = 0
             /\ tags'.subscribed = tags.subscribed
             /\ tags'.activeConsumerTag = 0
             /\ tags'.stop.pc = "idle"]_vars

\* Two startConsumer calls, then one stopConsumer(): the first
\* subscription is still active and nothing is tracked.
C33_Witness ==
    /\ tags.nextTag = 3
    /\ tags.last # <<>>
    /\ tags.last[1] = [op |-> "stop", arg |-> 0, tag |-> 2, threw |-> FALSE]
    /\ tags.subscribed = {1}
    /\ tags.activeConsumerTag = 0

(***************************************************************************)
(* Claims: adding a notification twice                                     *)
(***************************************************************************)
\* Adding a notification whose id is in the list changes nothing.
AddIsIdempotent(Add(_, _), state) ==
    \A notification \in ClientNotifications :
        someId(state.notifications, notification.id) =>
            Add(state, notification) = state

\* The store's addNotification is idempotent by id in every state the
\* store reaches.
C34_StoreAddIsIdempotent ==
    AddIsIdempotent(storeAddNotification, client.store)

\* C34: addNotification with an id already in the list leaves the list,
\* the unread count and the pagination total unchanged, in the store and
\* in the hook.
C34_AddIsIdempotentById ==
    /\ AddIsIdempotent(storeAddNotification, client.store)
    /\ AddIsIdempotent(hookAddNotification, client.hook)

\* The store holds a notification that was added a second time.
C34_Witness ==
    /\ Len(client.store.notifications) = 1
    /\ client.store.total = 1
    /\ someId(client.store.notifications, 1)
    /\ storeAddNotification(client.store, [id |-> 1, readAt |-> 0]) = client.store

(***************************************************************************)
(* Claims: cleanup of a replaced connection                                *)
(***************************************************************************)
\* The connection that owns `sink` was replaced: its user's registry entry
\* holds another controller.
Superseded(sink) ==
    /\ connUser[sink] # "none"
    /\ connUser[sink] \in DOMAIN routeClients
    /\ routeClients[connUser[sink]] # sink

\* This step is cleanup of the connection that owns `sink`: its request's
\* abort event, its stream's cancel(), or its heartbeat tick giving up.
CleanupOf(sink) ==
    \/ reqAborted'[sink] # reqAborted[sink]
    \/ connAborted'[sink] # connAborted[sink]
    \/ hbTimer[sink] /\ ~hbTimer'[sink]

\* C35: cleanup of a replaced connection leaves the user's new connection
\* registered and open.
C35_OldCleanupSparesNewConnection ==
    [][ \A old \in Sinks :
          (Superseded(old) /\ CleanupOf(old)) =>
              /\ routeClients' = routeClients
              /\ sinkState'[routeClients[connUser[old]]] =
                     sinkState[routeClients[connUser[old]]]
      ]_vars

\* The same for the request's abort event alone.
C35_OldAbortSparesNewConnection ==
    [][ \A old \in Sinks :
          (Superseded(old) /\ reqAborted'[old] # reqAborted[old]) =>
              routeClients' = routeClients
      ]_vars

(***************************************************************************)
(* Claims: marking read while a notification is stored                     *)
(***************************************************************************)
\* The ids of u1's list: stored newest first, so n, n-1, ..., 1 when
\* nothing was overwritten or moved.
IdsInStoredOrder ==
    \A i \in 1..Len(history["u1"]) :
        history["u1"][i].id = Len(history["u1"]) + 1 - i

\* No two entries of u1's list have the same id.
IdsDistinct ==
    \A i, j \in 1..Len(history["u1"]) :
        i # j => history["u1"][i].id # history["u1"][j].id

\* C36: with storeNotification running between a markNotificationAsRead
\* call's read and its write, every entry other than the marked one keeps
\* its content and place, none is overwritten by a copy of another, and
\* the ids in the list stay distinct.
C36_MarkChangesOnlyItsEntry ==
    /\ IdsDistinct
    /\ IdsInStoredOrder
    /\ \A i \in 1..Len(history["u1"]) :
           history["u1"][i].readAt # <<>> =>
               \/ history["u1"][i].id = 1
               \/ \E c \in Callers :
                      /\ markCalls[c].id = history["u1"][i].id
                      /\ markCalls[c].pc = "done"
                      /\ markCalls[c].ok

(***************************************************************************)
(* Claims: a disabled channel stays disabled                               *)
(***************************************************************************)
\* u1's latest preference call is a setUserPreferences that returned and
\* turned the email channel off: email is disabled and was neither
\* re-enabled nor reset since.
EmailOptedOut ==
    /\ prefLast # <<>>
    /\ prefLast[1].op = "set"
    /\ prefLast[1].userId = "u1"
    /\ ~prefLast[1].threw
    /\ "channels" \in DOMAIN prefLast[1].update
    /\ prefLast[1].update.channels.email = FALSE

\* processNotification runs on an email notification for u1.
ProcessesEmail ==
    /\ gateMsg # <<>>
    /\ gateMsg' = <<>>
    /\ gateMsg[1].userId = "u1"
    /\ gateMsg[1].type = "email"

\* C37: once u1 has disabled email and not re-enabled it or reset the
\* preferences, no email notification for u1 reaches a handler, whatever
\* happens to the cache.
C37_OptOutIsPermanent ==
    [][(EmailOptedOut /\ ProcessesEmail) => lastProc'[1].invoked = "none"]_vars

\* The same while the stored record is there and was read.
C37_OptOutHoldsWhileStored ==
    [][(/\ EmailOptedOut /\ ProcessesEmail
        /\ "u1" \in DOMAIN prefsCache
        /\ lastProc'[1].preferences = prefsCache["u1"])
           => lastProc'[1].outcome = "channel"]_vars

(***************************************************************************)
(* Claims: after the subscriber's disconnect                               *)
(***************************************************************************)
\* C38: from disconnect() until the caller's next connect(), no
\* EventSource is created and the status stays "disconnected".
C38_DisconnectedUntilConnect ==
    [][(sse.last = "disconnect" /\ sse'.last # "connect") =>
           /\ sse'.nextSource = sse.nextSource
           /\ sse'.status = "disconnected"]_vars

\* The same for the timer disconnect() knows: the timer held in
\* reconnectTimeoutRef when disconnect() is called never fires.
C38_TrackedTimerNeverFires ==
    [][(Mounted(sse) /\ sse.timeoutRef # 0 /\ sse'.last = "disconnect"
        /\ sse.last # "disconnect") =>
           ~sse'.timers[sse.timeoutRef]]_vars

\* The part of C38 about reconnect timers: between disconnect() and the
\* caller's next connect(), no reconnect timer set by an onerror handler
\* fires and opens a transport.
C38_NoTimerReconnectsAfterDisconnect ==
    [][(/\ sse.last = "disconnect"
        /\ ~sse.mountTimer
        /\ \E i \in Sources : sse.timers[i] /\ ~sse'.timers[i])
           => /\ sse'.nextSource = sse.nextSource
              /\ sse'.status = "disconnected"]_vars

(***************************************************************************)
(* Claims: connect() while a connect is in progress                        *)
(***************************************************************************)
\* The caller's rabbitmq.connect() in setup returns in this step without
\* throwing.
ConnectResolves(p) ==
    /\ proc[p].pc = "setup"
    /\ proc[p].step = 0
    /\ proc'[p].pc = "setup"
    /\ proc'[p].step = 1

\* The caller's getChannel() ends in this step while another caller's
\* connect is in progress.
GetChannelDuringConnect(p) ==
    /\ NeedsChannel(proc[p])
    /\ ~proc[p].connecting
    /\ isConnecting
    /\ proc'[p] # proc[p]

\* C39: when connect() resolves without throwing a channel is available,
\* and a getChannel() made while another connect() is in progress does not
\* fail.
C39_ConnectResolvesWithChannel ==
    [][\A p \in Procs :
          /\ ConnectResolves(p) => connected'
          /\ GetChannelDuringConnect(p) => proc'[p].result \notin {"failed", "caught"}
      ]_vars

\* The part about connections: a call made while a connect is in progress
\* starts no second one.
C39_OneConnectAtATime ==
    /\ Cardinality({p \in Procs : proc[p].connecting}) <= 1
    /\ isConnecting <=> \E p \in Procs : proc[p].connecting

====
